---------------------------- MODULE Spec2Model ----------------------------
(***************************************************************************)
(* Verification model of the SEMANTICA repository: the FastAPI/WebSocket   *)
(* wrappers around the Serpro LLM (scripts/3_API/v4_simplified).           *)
(*                                                                         *)
(* Conventions.                                                            *)
(*  - A confidence is a number of hundredths: 70 stands for 0.7.           *)
(*  - A string is a sequence of one-character strings where its characters *)
(*    matter (split, strip, len); otherwise it is a TLA+ string.           *)
(*  - The diagnosis written "NÃO" in the source is written "NAO" here.     *)
(*  - Python's None is the string "None"; an absent dict key is "Absent".  *)
(*  - Every subsystem has its own specification over the same variables;   *)
(*    the variables of the other subsystems stay at their idle values.     *)
(***************************************************************************)
EXTENDS Integers, Sequences, FiniteSets, TLC

VARIABLES
    cls,            \* classification run: the LLM result and the three statuses
    heap,           \* main.py/utils.py: the dict objects ever bound to a name "stats"
    utils_stats,    \* the object the global utils.stats names
    main_stats,     \* the object the global main.stats names (from utils import *)
    st,             \* /stats bookkeeping: last reply, resets done, reset-not-yet-disturbed
    client,         \* which LLM client class runs: SerproClient, FileProcessor, SerproLLMConnector
    now,            \* datetime.now().timestamp(), in seconds
    access_token,   \* self.access_token: 0 is None, k > 0 names a token issued
    token_expires_at, \* self.token_expires_at: 0 is None
    call,           \* the running LLM call: position, loop counters, headers
    obs,            \* what the endpoints saw of the running call (requests, answers, sleeps)
    file_processing_active, \* 1_api_main_v2.py: the global flag of the batch processing
    conn,           \* per WebSocket connection: where its handle_file_processing stands
    stop_reply,     \* the message of the last POST /stop-file-processing
    rest,           \* 1_api_main_v2.py: one POST /analise-semantica, its input and answer
    val,            \* a file of lines under FileProcessor.process_item or main.process_file_ws
    pl,             \* one line under utils.parse_line and FileProcessor.parse_line
    dd,             \* 1_encontra_duplicados.py: the files under RAIZ, UNIQUE and REPETITION, mapeamento, counters
    fb,             \* the keyword fallback: a response content, the class that parsed it, its answer
    rd,             \* SerproLLMConnector._calculate_retry_delay: MAX_DELAY, the last call and its wait
    fs,             \* filtrar_por_similaridade: df, df_similares and what the call returned
    rs,             \* AE_semantica_v0.42.py: df_inicial, the CSV files of the directory, the filters done, the printed summary
    md,             \* 3_filtra_md.py: the .md files of cwd, where each file went, the counters
    ts              \* detectar_similares_consecutivos_tfidf: df, janela, the similarities, the pairs found, what filtrar_por_similaridade then returned

vars == <<cls, heap, utils_stats, main_stats, st,
          client, now, access_token, token_expires_at, call, obs,
          file_processing_active, conn, stop_reply, rest, val,
          pl,
          dd,
          fb,
          rd,
          fs,
          rs,
          md,
          ts>>

clsVars == <<cls>>
statsVars == <<heap, utils_stats, main_stats, st>>
llmVars == <<client, now, access_token, token_expires_at, call, obs>>

batchVars == <<file_processing_active, conn, stop_reply>>
restVars == <<rest>>
valVars == <<val>>
parseVars == <<pl>>
dedupVars == <<dd>>
fallbackVars == <<fb>>
retryVars == <<rd>>
filtroVars == <<fs>>
resumoVars == <<rs>>
filtraMdVars == <<md>>
tfidfVars == <<ts>>

allButCls == <<statsVars, llmVars, batchVars, restVars, valVars, parseVars, dedupVars, fallbackVars, retryVars, filtroVars, resumoVars, filtraMdVars, tfidfVars>>
allButStats == <<clsVars, llmVars, batchVars, restVars, valVars, parseVars, dedupVars, fallbackVars, retryVars, filtroVars, resumoVars, filtraMdVars, tfidfVars>>
allButLlm == <<clsVars, statsVars, batchVars, restVars, valVars, parseVars, dedupVars, fallbackVars, retryVars, filtroVars, resumoVars, filtraMdVars, tfidfVars>>
allButBatch == <<clsVars, statsVars, llmVars, restVars, valVars, parseVars, dedupVars, fallbackVars, retryVars, filtroVars, resumoVars, filtraMdVars, tfidfVars>>
allButRest == <<clsVars, statsVars, llmVars, batchVars, valVars, parseVars, dedupVars, fallbackVars, retryVars, filtroVars, resumoVars, filtraMdVars, tfidfVars>>
allButVal == <<clsVars, statsVars, llmVars, batchVars, restVars, parseVars, dedupVars, fallbackVars, retryVars, filtroVars, resumoVars, filtraMdVars, tfidfVars>>
allButParse == <<clsVars, statsVars, llmVars, batchVars, restVars, valVars, dedupVars, fallbackVars, retryVars, filtroVars, resumoVars, filtraMdVars, tfidfVars>>
allButDedup == <<clsVars, statsVars, llmVars, batchVars, restVars, valVars, parseVars, fallbackVars, retryVars, filtroVars, resumoVars, filtraMdVars, tfidfVars>>
allButFallback == <<clsVars, statsVars, llmVars, batchVars, restVars, valVars, parseVars, dedupVars, retryVars, filtroVars, resumoVars, filtraMdVars, tfidfVars>>
allButRetry == <<clsVars, statsVars, llmVars, batchVars, restVars, valVars, parseVars, dedupVars, fallbackVars, filtroVars, resumoVars, filtraMdVars, tfidfVars>>
allButFiltro == <<clsVars, statsVars, llmVars, batchVars, restVars, valVars, parseVars, dedupVars, fallbackVars, retryVars, resumoVars, filtraMdVars, tfidfVars>>
allButResumo == <<clsVars, statsVars, llmVars, batchVars, restVars, valVars, parseVars, dedupVars, fallbackVars, retryVars, filtroVars, filtraMdVars, tfidfVars>>
allButFiltraMd == <<clsVars, statsVars, llmVars, batchVars, restVars, valVars, parseVars, dedupVars, fallbackVars, retryVars, filtroVars, resumoVars, tfidfVars>>
allButTfidf == <<clsVars, statsVars, llmVars, batchVars, restVars, valVars, parseVars, dedupVars, fallbackVars, retryVars, filtroVars, resumoVars, filtraMdVars>>

None == "None"
Absent == "Absent"

\* the value of the variables of a part of the program that a specification does not run
NotRunning == [pc |-> "idle"]

Min(a, b) == IF a <= b THEN a ELSE b

(***************************************************************************)
(* Bounds of the model.                                                    *)
(***************************************************************************)
MaxConf == 100          \* confidences 0 .. MaxConf hundredths
MaxRequests == 3        \* analyses counted by update_stats
MaxResets == 2          \* POST /stats/reset calls
MaxCalls == 2           \* LLM calls made by one client object
StartTime == 600        \* the clock when the client object is built
TickStep == 1100        \* the clock advances by this many seconds
MaxTime == 3900         \* the clock stops here
MaxConns == 2           \* WebSocket connections open at once
MaxItems == 2           \* lines of a file of justificativas
MaxInput == 5           \* characters of the field "input" of POST /analise-semantica
MaxJust == 11           \* non-blank characters of a justificativa of a file line
MaxLine == 6            \* characters of a line given to parse_line
MaxHashes == 2          \* distinct contents (SHA-256 values) of the files under RAIZ
MaxAttempt == 6         \* attempt numbers 1 .. MaxAttempt given to _calculate_retry_delay
MaxIds == 3             \* distinct ID TERMO values
MaxRows == 3            \* rows of a DataFrame given to the filters
MaxPairs == 2           \* rows of a table of similar pairs given to filtrar_por_similaridade
MaxOriginal == 4        \* rows of dadosTermosReclamacao.csv
MaxMd == 2              \* .md files in the directory 3_filtra_md.py scans

(***************************************************************************)
(* config.py: thresholds of confidence (hundredths).                       *)
(***************************************************************************)
CONFIDENCE_HIGH == 70
CONFIDENCE_MEDIUM == 50

(***************************************************************************)
(* Classification (utils.classify_result, FileProcessor.process_item,      *)
(* SemanticaConsignacao.analisar_semantica_consignacao).                   *)
(***************************************************************************)
Diagnoses == {"SIM", "NAO", "sim", "TALVEZ"}
Confidences == 0 .. MaxConf

\* llm_result.get("diagnosticoLLM", "NÃO") and llm_result.get("confidence", 0.5)
GetDiagnostico(llm_result) ==
    IF llm_result.diagnosticoLLM = Absent THEN "NAO" ELSE llm_result.diagnosticoLLM

GetConfidence(llm_result) ==
    IF llm_result.has_confidence THEN llm_result.confidence ELSE 50

\* classify_result with > in place of >=: what the thresholds would give if exclusive
classify_result_strict(diagnostico, confidence) ==
    IF diagnostico = "SIM" /\ confidence > CONFIDENCE_HIGH THEN "APPROVED"
    ELSE IF diagnostico = "SIM" /\ confidence > CONFIDENCE_MEDIUM THEN "REVIEW_REQUIRED"
    ELSE "REJECTED"

\* utils.classify_result
classify_result(diagnostico, confidence) ==
    IF diagnostico = "SIM" /\ confidence >= CONFIDENCE_HIGH THEN "APPROVED"
    ELSE IF diagnostico = "SIM" /\ confidence >= CONFIDENCE_MEDIUM THEN "REVIEW_REQUIRED"
    ELSE "REJECTED"

\* FileProcessor.process_item, step 6 (literals 0.7 and 0.5)
ProcessItemStatus(diagnostico_llm, confidence) ==
    IF diagnostico_llm = "SIM" /\ confidence >= 70 THEN "APPROVED"
    ELSE IF diagnostico_llm = "SIM" /\ confidence >= 50 THEN "REVIEW_REQUIRED"
    ELSE "REJECTED"

\* SemanticaConsignacao.analisar_semantica_consignacao, final_status
AnalisarFinalStatus(diagnostico_llm, confidence) ==
    IF diagnostico_llm = "SIM" /\ confidence >= 70 THEN "APPROVED"
    ELSE IF diagnostico_llm = "SIM" /\ confidence >= 50 THEN "REVIEW_REQUIRED"
    ELSE "REJECTED"

ClsIdle ==
    cls = [llm_result |-> [diagnosticoLLM |-> Absent, has_confidence |-> FALSE,
                           confidence |-> 0],
           utils |-> None, processor |-> None, api |-> None]

ClsInit ==
    \E d \in Diagnoses \cup {Absent}, has \in BOOLEAN, c \in Confidences :
        /\ (~has) => c = 0
        /\ cls = [llm_result |-> [diagnosticoLLM |-> d, has_confidence |-> has,
                                  confidence |-> c],
                  utils |-> None, processor |-> None, api |-> None]

\* main.analise_semantica: classify_result(diagnostico, confidence)
ClassifyUtils ==
    /\ cls.utils = None
    /\ cls' = [cls EXCEPT !.utils =
                 classify_result(GetDiagnostico(cls.llm_result), GetConfidence(cls.llm_result))]
    /\ UNCHANGED allButCls

ClassifyProcessor ==
    /\ cls.processor = None
    /\ cls' = [cls EXCEPT !.processor =
                 ProcessItemStatus(GetDiagnostico(cls.llm_result), GetConfidence(cls.llm_result))]
    /\ UNCHANGED allButCls

ClassifyApi ==
    /\ cls.api = None
    /\ cls' = [cls EXCEPT !.api =
                 AnalisarFinalStatus(GetDiagnostico(cls.llm_result), GetConfidence(cls.llm_result))]
    /\ UNCHANGED allButCls

(***************************************************************************)
(* Statistics of main.py (utils.stats, update_stats, get_stats,            *)
(* reset_statistics).  main.py does "from utils import *": its global      *)
(* "stats" first names the same dict object as utils.stats.                *)
(***************************************************************************)
NewStats == [total_requests |-> 0, total_errors |-> 0]
NoReply == [endpoint |-> None, stats |-> NewStats, after_reset |-> FALSE]

StatsIdle ==
    /\ heap = <<NewStats>>
    /\ utils_stats = 1
    /\ main_stats = 1
    /\ st = [reply |-> NoReply, resets |-> 0, clean |-> FALSE]

\* utils.update_stats: mutates the object utils.stats names
update_stats(h, error) ==
    [h EXCEPT ![utils_stats] =
        [total_requests |-> @.total_requests + 1,
         total_errors |-> IF error THEN @.total_errors + 1 ELSE @.total_errors]]

\* utils.get_stats: reads the object utils.stats names
get_stats ==
    [total_requests |-> heap[utils_stats].total_requests,
     total_errors |-> heap[utils_stats].total_errors]

\* main.analise_semantica, normal return: update_stats()
AnaliseSemanticaOk ==
    /\ heap[utils_stats].total_requests < MaxRequests
    /\ heap' = update_stats(heap, FALSE)
    /\ st' = [st EXCEPT !.clean = FALSE, !.reply = NoReply]
    /\ UNCHANGED <<utils_stats, main_stats>>
    /\ UNCHANGED allButStats

\* main.analise_semantica, except branch: update_stats(error=True)
AnaliseSemanticaError ==
    /\ heap[utils_stats].total_requests < MaxRequests
    /\ heap' = update_stats(heap, TRUE)
    /\ st' = [st EXCEPT !.clean = FALSE, !.reply = NoReply]
    /\ UNCHANGED <<utils_stats, main_stats>>
    /\ UNCHANGED allButStats

\* main.reset_statistics: "global stats; stats = {...}" rebinds main.stats
ResetStatistics ==
    /\ st.resets < MaxResets
    /\ heap' = Append(heap, NewStats)
    /\ main_stats' = Len(heap) + 1
    /\ st' = [st EXCEPT !.resets = @ + 1, !.clean = TRUE, !.reply = NoReply]
    /\ UNCHANGED utils_stats
    /\ UNCHANGED allButStats

\* main.get_statistics (GET /stats)
GetStatistics ==
    /\ st' = [st EXCEPT !.reply = [endpoint |-> "stats", stats |-> get_stats,
                                   after_reset |-> st.clean]]
    /\ UNCHANGED <<heap, utils_stats, main_stats>>
    /\ UNCHANGED allButStats

\* main.health_check (GET /health)
HealthCheck ==
    /\ st' = [st EXCEPT !.reply = [endpoint |-> "health", stats |-> get_stats,
                                   after_reset |-> st.clean]]
    /\ UNCHANGED <<heap, utils_stats, main_stats>>
    /\ UNCHANGED allButStats

(***************************************************************************)
(* The LLM clients: SerproClient (serpro_client.py), FileProcessor         *)
(* (3_processador_arquivo_v2.py) and SerproLLMConnector                    *)
(* (1_api_main_v2.py).  One action is one HTTP request with the handling   *)
(* of its answer, up to the next request or to the end of the call.        *)
(***************************************************************************)
MAX_RETRIES == 3        \* config.py, used by SerproClient
max_retries == 5        \* 0_config_v2.py RETRY_CONFIG, used by the other two
retry_delay == 1                \* RETRY_CONFIG["retry_delay"], seconds
backoff_multiplier_num == 3     \* RETRY_CONFIG["backoff_multiplier"] = 1.5 = 3/2
backoff_multiplier_den == 2
max_delay == 30                 \* RETRY_CONFIG["max_delay"], seconds
limiar == 70                    \* detectar_similares_consecutivos_tfidf(limiar=0.70), hundredths

Clients == {"SerproClient", "FileProcessor", "SerproLLMConnector"}

Http(s) == [kind |-> "http", status |-> s]
Timeout == [kind |-> "timeout", status |-> 0]
ConnectionError == [kind |-> "connection", status |-> 0]
NoAnswer == [kind |-> "none", status |-> 0]

ChatAnswers == {Http(200), Http(401), Http(429), Http(500), Timeout, ConnectionError}
TokenAnswers == {Http(200), Http(401), Http(403), Http(500), Timeout}

\* token_data of a 200 answer of the token endpoint: "expires_in" present or not
ExpiresIns == {[has |-> FALSE, v |-> 0], [has |-> TRUE, v |-> 300], [has |-> TRUE, v |-> 1400]}

\* content of a 200 answer of /chat/completions, already structured
Bodies == {[diagnosticoLLM |-> "SIM", confidence |-> 80],
           [diagnosticoLLM |-> "NAO", confidence |-> 90]}
NoResult == [wrapped |-> FALSE, analysis |-> [diagnosticoLLM |-> Absent, confidence |-> 0]]

\* parse_response returns the parsed dict; parse_llm_response wraps it in "llm_analysis"
parse_response(c, body) == [wrapped |-> c # "SerproClient", analysis |-> body]

\* the expiry without the 300 s of margin
TokenExpiryNoBuffer(t, e) == t + (IF e.has THEN e.v ELSE 3600)

\* token_data.get("expires_in", 3600); now + expires_in - 300
TokenExpiry(t, e) == t + (IF e.has THEN e.v ELSE 3600) - 300

\* SerproClient.get_access_token l.44-47, FileProcessor.get_access_token l.358-360
CachedTokenUsable == access_token # 0 /\ token_expires_at # 0 /\ now < token_expires_at

\* SerproLLMConnector.is_token_valid
is_token_valid ==
    IF access_token = 0 THEN FALSE
    ELSE IF token_expires_at # 0 /\ now >= token_expires_at THEN FALSE
    ELSE TRUE

\* requests.Response.__bool__ is Response.ok: true iff the status is below 400
ResponseTruthy(ans) == ans.kind = "http" /\ ans.status < 400

\* SerproLLMConnector._categorize_request_error(error, response)
categorize_request_error(ans) ==
    IF ans.kind = "timeout" THEN "TIMEOUT_ERROR"
    ELSE IF ans.kind = "connection" THEN "CONNECTION_ERROR"
    ELSE IF ResponseTruthy(ans) /\ ans.status = 401 THEN "AUTH_ERROR"
    ELSE IF ResponseTruthy(ans) /\ ans.status = 403 THEN "ACCESS_DENIED"
    ELSE IF ResponseTruthy(ans) /\ ans.status = 429 THEN "RATE_LIMIT_ERROR"
    ELSE IF ResponseTruthy(ans) /\ ans.status >= 500 /\ ans.status < 600 THEN "SERVER_ERROR"
    ELSE "UNEXPECTED_ERROR"

\* SerproLLMConnector._categorize_http_error(status_code, response_text)
categorize_http_error(status_code) ==
    IF status_code = 401 THEN "TOKEN_EXPIRED"
    ELSE IF status_code = 429 THEN "RATE_LIMIT_ERROR"
    ELSE IF status_code = 503 THEN "SERVICE_UNAVAILABLE"
    ELSE IF status_code >= 500 /\ status_code < 600 THEN "SERVER_ERROR"
    ELSE "HTTP_ERROR"

\* SerproLLMConnector._should_retry(error_detail, attempt)
should_retry(error_type, attempt) ==
    IF attempt >= max_retries THEN FALSE
    ELSE error_type \notin {"AUTH_ERROR", "ACCESS_DENIED", "VALIDATION_ERROR", "PARSE_ERROR"}

\* a retry loop that runs once more than configured
MaxAttemptsOffByOne(c) == IF c = "SerproClient" THEN MAX_RETRIES + 1 ELSE max_retries + 1

\* the number of iterations of the retry loops: range(MAX_RETRIES), range(1, max_retries + 1)
MaxAttempts(c) == IF c = "SerproClient" THEN MAX_RETRIES ELSE max_retries

\* the first value of the loop variable: range(MAX_RETRIES) starts at 0, the others at 1
FirstAttempt(c) == IF c = "SerproClient" THEN 0 ELSE 1

\* the last value of the loop variable
LastAttempt(c) == FirstAttempt(c) + MaxAttempts(c) - 1

IdleCall == [pc |-> "idle", attempt |-> 0, tattempt |-> 0, ret |-> "start", hdr |-> 0, n |-> 0]

\* chat_sent: chat-completion requests of this call; last: the answer to the last one;
\* after401: the last one followed a 401; hdr_sent, hdr_before: the tokens in the
\* Authorization headers of the last one and of the one before; renewed: a token was
\* issued since the last one (since the start of the call, before the first one);
\* renewed_at_send: the value of renewed when the last one was sent; sent_latest: the
\* last one carried the token issued last; tok_state: get_access_token is running, has returned or
\* has raised; tok_auth: the token endpoint answered 401/403 in this get_access_token;
\* tok_after_auth: the code slept or sent a token request after that answer;
\* tok_before_chat: a token request was sent in this call before its first chat
\* request; start_valid: at the start of the call a token was cached and the clock
\* was before its expiry; issued: tokens issued so far; rcv_time, rcv_expires: the
\* clock and the expires_in of the last token answer
IdleObs ==
    [chat_sent |-> 0, last |-> NoAnswer, after401 |-> FALSE, hdr_sent |-> 0,
     hdr_before |-> 0, renewed |-> FALSE, renewed_at_send |-> FALSE,
     sent_latest |-> FALSE,
     tok_auth |-> FALSE, tok_after_auth |-> FALSE, tok_state |-> "none",
     tok_before_chat |-> FALSE, start_valid |-> FALSE,
     outcome |-> "none", result |-> NoResult,
     issued |-> 0, rcv_time |-> 0, rcv_expires |-> [has |-> FALSE, v |-> 0]]

LlmIdle ==
    /\ client = "SerproClient"
    /\ now = 0
    /\ access_token = 0
    /\ token_expires_at = 0
    /\ call = IdleCall
    /\ obs = IdleObs

LlmInit ==
    /\ client \in Clients
    /\ now = StartTime
    /\ access_token = 0
    /\ token_expires_at = 0
    /\ call = IdleCall
    /\ obs = IdleObs

\* obs when a call looks at its cached token for the first time: the facts of this
\* call are reset, those of the token kept
ObsStart(o) ==
    [IdleObs EXCEPT !.issued = o.issued, !.rcv_time = o.rcv_time, !.rcv_expires = o.rcv_expires,
                    !.start_valid = (access_token # 0 /\ now < token_expires_at)]

\* obs when get_access_token starts its retry loop
ObsTokenLoop(o) ==
    [o EXCEPT !.tok_auth = FALSE, !.tok_after_auth = FALSE, !.tok_state = "running"]

\* obs after one request to the token endpoint answered ans; slept: the code slept
\* after it; state: get_access_token is still running, has returned or has raised
ObsTokenRequest(o, ans, e, slept, state) ==
    LET auth == ans.kind = "http" /\ ans.status \in {401, 403}
        ok == ans = Http(200)
    IN  [o EXCEPT !.tok_auth = @ \/ auth,
                  !.tok_after_auth = @ \/ o.tok_auth \/ (slept /\ auth),
                  !.tok_state = state,
                  !.tok_before_chat = @ \/ (o.chat_sent = 0),
                  !.renewed = @ \/ ok,
                  !.issued = IF ok THEN @ + 1 ELSE @,
                  !.rcv_time = IF ok THEN now ELSE @,
                  !.rcv_expires = IF ok THEN e ELSE @]

\* obs after one chat-completion request sent with Authorization "Bearer hdr", answered ans
ObsChatRequest(o, ans, hdr) ==
    [o EXCEPT !.chat_sent = @ + 1,
              !.after401 = (o.last = Http(401)),
              !.hdr_before = o.hdr_sent,
              !.hdr_sent = hdr,
              !.last = ans,
              !.renewed_at_send = o.renewed,
              !.sent_latest = (hdr = o.issued),
              !.renewed = FALSE]

ObsReturned(o, c, body) == [o EXCEPT !.outcome = "returned", !.result = parse_response(c, body)]
ObsRaised(o) == [o EXCEPT !.outcome = "raised"]

\* time passes, between two calls and between two attempts of a call
Tick ==
    /\ call.pc \in {"idle", "chat"}
    /\ now + TickStep <= MaxTime
    /\ now' = now + TickStep
    /\ UNCHANGED <<client, access_token, token_expires_at, call, obs>>
    /\ UNCHANGED allButLlm

\* the caller takes the result or the exception of the finished call.  A token is
\* an opaque string: once no header of a call holds one, the cached token (the one
\* issued last, if any) is numbered 1 again.
EndCall ==
    /\ call.pc = "done"
    /\ call' = [IdleCall EXCEPT !.n = call.n]
    /\ obs' = [IdleObs EXCEPT !.issued = Min(obs.issued, 1), !.rcv_time = obs.rcv_time,
                              !.rcv_expires = obs.rcv_expires]
    /\ access_token' = Min(access_token, 1)
    /\ UNCHANGED <<client, now, token_expires_at>>
    /\ UNCHANGED allButLlm

(***************************************************************************)
(* SerproClient (serpro_client.py).                                        *)
(***************************************************************************)
\* call_llm up to "token = self.get_access_token()" and the cache check of that
SC_StartCall ==
    /\ client = "SerproClient"
    /\ call.pc = "idle"
    /\ call.n < MaxCalls
    /\ obs' = IF CachedTokenUsable THEN ObsStart(obs) ELSE ObsTokenLoop(ObsStart(obs))
    /\ call' = IF CachedTokenUsable
               THEN [call EXCEPT !.pc = "send", !.attempt = 0, !.hdr = access_token,
                                 !.n = @ + 1, !.ret = "start"]
               ELSE [call EXCEPT !.pc = "token", !.tattempt = 0, !.ret = "start",
                                 !.n = @ + 1, !.hdr = 0]
    /\ UNCHANGED <<client, now, access_token, token_expires_at>>
    /\ UNCHANGED allButLlm

\* get_access_token: one iteration of "for attempt in range(MAX_RETRIES)"
SC_TokenRequest ==
    /\ client = "SerproClient"
    /\ call.pc = "token"
    /\ \E ans \in TokenAnswers, e \in ExpiresIns :
        /\ ans # Http(200) => ~e.has
        /\ IF ans = Http(200)
           THEN \* token stored, returned to call_llm, which builds the headers
                /\ access_token' = obs.issued + 1
                /\ token_expires_at' = TokenExpiry(now, e)
                /\ call' = [call EXCEPT !.pc = "send", !.attempt = 0,
                                        !.hdr = obs.issued + 1]
                /\ obs' = ObsTokenRequest(obs, ans, e, FALSE, "returned")
           ELSE IF call.tattempt < MAX_RETRIES - 1
           THEN \* logged, time.sleep(delay), next iteration
                /\ call' = [call EXCEPT !.tattempt = @ + 1]
                /\ obs' = ObsTokenRequest(obs, ans, e, TRUE, "running")
                /\ UNCHANGED <<access_token, token_expires_at>>
           ELSE \* the loop ends: raise Exception, which call_llm re-raises
                /\ call' = [call EXCEPT !.pc = "done"]
                /\ obs' = ObsRaised(ObsTokenRequest(obs, ans, e, FALSE, "raised"))
                /\ UNCHANGED <<access_token, token_expires_at>>
    /\ UNCHANGED <<client, now>>
    /\ UNCHANGED allButLlm

\* call_llm: one iteration of "for attempt in range(MAX_RETRIES)"; the headers were
\* built before the loop
SC_ChatRequest ==
    /\ client = "SerproClient"
    /\ call.pc = "send"
    /\ \E ans \in ChatAnswers, body \in Bodies :
        LET o == ObsChatRequest(obs, ans, call.hdr)
            more == call.attempt + 1 <= LastAttempt("SerproClient")
        IN  IF ans = Http(200)
            THEN /\ call' = [call EXCEPT !.pc = "done"]
                 /\ obs' = ObsReturned(o, client, body)
                 /\ UNCHANGED access_token
            ELSE /\ ans # Http(200) => body = CHOOSE b \in Bodies : TRUE
                 \* 401: self.access_token = None; continue.  Others: log, sleep.
                 /\ access_token' = IF ans = Http(401) THEN 0 ELSE access_token
                 /\ call' = IF more THEN [call EXCEPT !.attempt = @ + 1]
                            ELSE [call EXCEPT !.pc = "done"]
                 /\ obs' = IF more THEN o ELSE ObsRaised(o)
    /\ UNCHANGED <<client, now, token_expires_at>>
    /\ UNCHANGED allButLlm

(***************************************************************************)
(* FileProcessor (3_processador_arquivo_v2.py).                            *)
(***************************************************************************)
\* call_serpro_llm up to "await self.get_access_token()" and the cache check of that
FP_StartCall ==
    /\ client = "FileProcessor"
    /\ call.pc = "idle"
    /\ call.n < MaxCalls
    /\ obs' = IF CachedTokenUsable THEN ObsStart(obs) ELSE ObsTokenLoop(ObsStart(obs))
    /\ call' = IF CachedTokenUsable
               THEN [call EXCEPT !.pc = "send", !.attempt = 1, !.hdr = access_token,
                                 !.n = @ + 1, !.ret = "start"]
               ELSE [call EXCEPT !.pc = "token", !.tattempt = 1, !.ret = "start",
                                 !.n = @ + 1, !.hdr = 0]
    /\ UNCHANGED <<client, now, access_token, token_expires_at>>
    /\ UNCHANGED allButLlm

\* get_access_token: one iteration of "for attempt in range(1, max_retries + 1)".
\* A 401/403 raises inside the try and is caught by "except Exception" like any
\* other error: re-raised at the last attempt, slept on and retried before.
FP_TokenRequest ==
    /\ client = "FileProcessor"
    /\ call.pc = "token"
    /\ \E ans \in TokenAnswers, e \in ExpiresIns :
        /\ ans # Http(200) => ~e.has
        /\ IF ans = Http(200)
           THEN /\ access_token' = obs.issued + 1
                /\ token_expires_at' = TokenExpiry(now, e)
                /\ IF call.ret = "start"
                   THEN \* back in call_serpro_llm: headers built from self.access_token
                        /\ call' = [call EXCEPT !.pc = "send", !.attempt = 1,
                                                !.hdr = obs.issued + 1]
                        /\ obs' = ObsTokenRequest(obs, ans, e, FALSE, "returned")
                   ELSE \* back in the 401 branch: continue, with the headers as they are
                        IF call.attempt < LastAttempt("FileProcessor")
                        THEN /\ call' = [call EXCEPT !.pc = "send", !.attempt = @ + 1]
                             /\ obs' = ObsTokenRequest(obs, ans, e, FALSE, "returned")
                        ELSE /\ call' = [call EXCEPT !.pc = "done"]
                             /\ obs' = ObsRaised(ObsTokenRequest(obs, ans, e, FALSE, "returned"))
           ELSE IF call.tattempt < max_retries
           THEN \* asyncio.sleep(delay), next iteration
                /\ call' = [call EXCEPT !.tattempt = @ + 1]
                /\ obs' = ObsTokenRequest(obs, ans, e, TRUE, "running")
                /\ UNCHANGED <<access_token, token_expires_at>>
           ELSE \* get_access_token raises
                /\ UNCHANGED <<access_token, token_expires_at>>
                /\ IF call.ret = "start" \/ call.attempt = max_retries
                      \/ call.attempt >= LastAttempt("FileProcessor")
                   THEN \* out of call_serpro_llm, or re-raised by its except clauses,
                        \* or slept on at the last iteration of the loop
                        /\ call' = [call EXCEPT !.pc = "done"]
                        /\ obs' = ObsRaised(ObsTokenRequest(obs, ans, e, FALSE, "raised"))
                   ELSE \* caught in the retry loop: sleep, next attempt
                        /\ call' = [call EXCEPT !.pc = "send", !.attempt = @ + 1]
                        /\ obs' = ObsTokenRequest(obs, ans, e, FALSE, "raised")
    /\ UNCHANGED <<client, now>>
    /\ UNCHANGED allButLlm

\* call_serpro_llm: one iteration of "for attempt in range(1, max_retries + 1)"; the
\* headers were built before the loop
FP_ChatRequest ==
    /\ client = "FileProcessor"
    /\ call.pc = "send"
    /\ \E ans \in ChatAnswers, body \in Bodies :
        LET o == ObsChatRequest(obs, ans, call.hdr)
        IN  IF ans = Http(200)
            THEN /\ call' = [call EXCEPT !.pc = "done"]
                 /\ obs' = ObsReturned(o, client, body)
                 /\ UNCHANGED access_token
            ELSE /\ body = CHOOSE b \in Bodies : TRUE
                 /\ IF ans = Http(401)
                    THEN \* self.access_token = None; await self.get_access_token()
                         /\ access_token' = 0
                         /\ call' = [call EXCEPT !.pc = "token", !.tattempt = 1,
                                                 !.ret = "renew"]
                         /\ obs' = ObsTokenLoop(o)
                    ELSE \* raise / timeout: re-raised at the last attempt, else sleep
                         \* and go on to the next iteration, if the loop has one
                         LET more == call.attempt # max_retries
                                     /\ call.attempt < LastAttempt("FileProcessor")
                         IN  /\ UNCHANGED access_token
                             /\ call' = IF more THEN [call EXCEPT !.attempt = @ + 1]
                                        ELSE [call EXCEPT !.pc = "done"]
                             /\ obs' = IF more THEN o ELSE ObsRaised(o)
    /\ UNCHANGED <<client, now, token_expires_at>>
    /\ UNCHANGED allButLlm

(***************************************************************************)
(* SerproLLMConnector (1_api_main_v2.py).                                  *)
(***************************************************************************)
\* call_serpro_llm up to the head of "for attempt in range(1, max_retries + 1)"
CN_StartCall ==
    /\ client = "SerproLLMConnector"
    /\ call.pc = "idle"
    /\ call.n < MaxCalls
    /\ obs' = ObsStart(obs)
    /\ call' = [call EXCEPT !.pc = "chat", !.attempt = 1, !.n = @ + 1, !.hdr = 0,
                            !.ret = "start"]
    /\ UNCHANGED <<client, now, access_token, token_expires_at>>
    /\ UNCHANGED allButLlm

\* head of an iteration: "if not self.is_token_valid(): self.get_access_token()", then
\* the headers are built from self.access_token
CN_LoopHead ==
    /\ client = "SerproLLMConnector"
    /\ call.pc = "chat"
    /\ IF is_token_valid
       THEN /\ call' = [call EXCEPT !.pc = "send", !.hdr = access_token]
            /\ obs' = IF obs.chat_sent = 0 THEN ObsStart(obs) ELSE obs
       ELSE /\ call' = [call EXCEPT !.pc = "token", !.tattempt = 1]
            /\ obs' = ObsTokenLoop(IF obs.chat_sent = 0 THEN ObsStart(obs) ELSE obs)
    /\ UNCHANGED <<client, now, access_token, token_expires_at>>
    /\ UNCHANGED allButLlm

\* get_access_token: one iteration of "for attempt in range(1, max_retries + 1)".
\* An error answer is categorized by _categorize_request_error(None, resposta); a
\* SerproLLMError raised in the try body is caught by the method's own
\* "except Exception", which re-raises at the last attempt and sleeps before.
CN_TokenRequest ==
    /\ client = "SerproLLMConnector"
    /\ call.pc = "token"
    /\ \E ans \in TokenAnswers, e \in ExpiresIns :
        /\ ans # Http(200) => ~e.has
        /\ IF ans = Http(200)
           THEN /\ access_token' = obs.issued + 1
                /\ token_expires_at' = TokenExpiry(now, e)
                /\ call' = [call EXCEPT !.pc = "send", !.hdr = obs.issued + 1]
                /\ obs' = ObsTokenRequest(obs, ans, e, FALSE, "returned")
           ELSE LET error_type == categorize_request_error(ans)
                    retry == should_retry(error_type, call.tattempt)
                    \* http answer: raise at l.458 is caught at l.483; exception
                    \* answer: raise at l.474/481 leaves the method
                    raises == IF ans.kind = "http"
                              THEN (~retry) /\ call.tattempt = max_retries
                              ELSE (~retry) \/ ~(call.tattempt < max_retries)
                    ends == (~raises) /\ call.tattempt = max_retries
                IN  /\ UNCHANGED <<access_token, token_expires_at>>
                    /\ IF raises \/ ends
                       THEN \* SerproLLMError: call_serpro_llm re-raises it
                            /\ call' = [call EXCEPT !.pc = "done"]
                            /\ obs' = ObsRaised(ObsTokenRequest(obs, ans, e, FALSE, "raised"))
                       ELSE \* time.sleep(delay), next iteration
                            /\ call' = [call EXCEPT !.tattempt = @ + 1]
                            /\ obs' = ObsTokenRequest(obs, ans, e, TRUE, "running")
    /\ UNCHANGED <<client, now>>
    /\ UNCHANGED allButLlm

\* call_serpro_llm: the request of one iteration and the handling of its answer
CN_ChatRequest ==
    /\ client = "SerproLLMConnector"
    /\ call.pc = "send"
    /\ \E ans \in ChatAnswers, body \in Bodies :
        LET o == ObsChatRequest(obs, ans, call.hdr)
        IN  IF ans = Http(200)
            THEN /\ call' = [call EXCEPT !.pc = "done"]
                 /\ obs' = ObsReturned(o, client, body)
                 /\ UNCHANGED access_token
            ELSE LET error_type == categorize_http_error(ans.status)
                     raises == IF ans.kind = "http"
                               THEN ~should_retry(error_type, call.attempt)
                               ELSE call.attempt = max_retries
                     more == (~raises) /\ call.attempt < LastAttempt("SerproLLMConnector")
                 IN  /\ body = CHOOSE b \in Bodies : TRUE
                     /\ access_token' = IF ans.kind = "http" /\ error_type = "TOKEN_EXPIRED"
                                        THEN 0 ELSE access_token
                     /\ call' = IF more THEN [call EXCEPT !.pc = "chat", !.attempt = @ + 1]
                                ELSE [call EXCEPT !.pc = "done"]
                     /\ obs' = IF more THEN o ELSE ObsRaised(o)
    /\ UNCHANGED <<client, now, token_expires_at>>
    /\ UNCHANGED allButLlm


(***************************************************************************)
(* 1_api_main_v2.py: batch processing of a file over a WebSocket, and      *)
(* POST /stop-file-processing.  The event loop runs one coroutine at a     *)
(* time and switches at an await: each action is the code between two      *)
(* awaits.  A connection reads its next request only after its handler     *)
(* returned (websocket_endpoint awaits the handler).                       *)
(***************************************************************************)
Conns == 1 .. MaxConns

IdleConn == [pc |-> "idle", n |-> 0, i |-> 0, processed_count |-> 0,
             reply |-> None, stop_seen |-> FALSE, item_after_stop |-> FALSE]

BatchIdle ==
    /\ file_processing_active = FALSE
    /\ conn = [c \in Conns |-> IdleConn]
    /\ stop_reply = None

\* the head of "for i, justificativa_line in enumerate(justificativas, 1)" for item i:
\* break when the flag is down, else start the item (await handle_manual_input)
LoopHead(k, i) ==
    IF ~file_processing_active
    THEN [k EXCEPT !.pc = "completing"]
    ELSE [k EXCEPT !.pc = "item", !.i = i,
                   !.item_after_stop = @ \/ k.stop_seen]

\* a process_file request read by websocket_endpoint: handle_file_processing up to
\* its first await
handle_file_processing(c) ==
    /\ conn[c].pc = "idle"
    /\ \E n \in 0 .. MaxItems :
          IF file_processing_active
          THEN /\ conn' = [conn EXCEPT ![c] =
                              [IdleConn EXCEPT !.reply = "File processing already active"]]
               /\ UNCHANGED file_processing_active
          ELSE IF n = 0
          THEN /\ conn' = [conn EXCEPT ![c] =
                              [IdleConn EXCEPT !.reply = "No data found in file"]]
               /\ UNCHANGED file_processing_active
          ELSE /\ file_processing_active' = TRUE
               /\ conn' = [conn EXCEPT ![c] =
                              [IdleConn EXCEPT !.pc = "started", !.n = n,
                                               !.reply = "File processing started"]]
    /\ UNCHANGED stop_reply
    /\ UNCHANGED allButBatch

\* "File processing started" was sent: the loop is entered
HFP_Started(c) ==
    /\ conn[c].pc = "started"
    /\ conn' = [conn EXCEPT ![c] = LoopHead(conn[c], 1)]
    /\ UNCHANGED <<file_processing_active, stop_reply>>
    /\ UNCHANGED allButBatch

\* handle_manual_input returned: the item is counted, the progress update is sent
HFP_ItemDone(c) ==
    /\ conn[c].pc = "item"
    /\ conn' = [conn EXCEPT ![c].pc = "progress", ![c].processed_count = @ + 1]
    /\ UNCHANGED <<file_processing_active, stop_reply>>
    /\ UNCHANGED allButBatch

\* the progress update was sent: sleep 5 s before the next item, or leave the loop
HFP_ProgressSent(c) ==
    /\ conn[c].pc = "progress"
    /\ conn' = [conn EXCEPT ![c].pc = IF conn[c].i < conn[c].n THEN "sleep"
                                      ELSE "completing"]
    /\ UNCHANGED <<file_processing_active, stop_reply>>
    /\ UNCHANGED allButBatch

\* asyncio.sleep(5) ended: the next turn of the loop
HFP_SleepDone(c) ==
    /\ conn[c].pc = "sleep"
    /\ conn' = [conn EXCEPT ![c] = LoopHead(conn[c], conn[c].i + 1)]
    /\ UNCHANGED <<file_processing_active, stop_reply>>
    /\ UNCHANGED allButBatch

\* "File processing completed" was sent; finally: file_processing_active = False
HFP_Finally(c) ==
    /\ conn[c].pc = "completing"
    /\ file_processing_active' = FALSE
    /\ conn' = [conn EXCEPT ![c].pc = "idle", ![c].reply = "File processing completed"]
    /\ UNCHANGED stop_reply
    /\ UNCHANGED allButBatch

\* POST /stop-file-processing
stop_file_processing ==
    /\ IF file_processing_active
       THEN /\ file_processing_active' = FALSE
            /\ stop_reply' = "File processing stopped"
            /\ conn' = [c \in Conns |->
                          IF conn[c].pc # "idle"
                          THEN [conn[c] EXCEPT !.stop_seen = TRUE]
                          ELSE conn[c]]
       ELSE /\ stop_reply' = "No file processing was active"
            /\ UNCHANGED <<file_processing_active, conn>>
    /\ UNCHANGED allButBatch


(***************************************************************************)
(* Strings: str.strip, str.split("#"), "#".join, len.                      *)
(***************************************************************************)
Rep(ch, n) == [k \in 1 .. n |-> ch]

\* all strings over an alphabet up to a length
StringsUpTo(alphabet, n) == UNION {[1 .. k -> alphabet] : k \in 0 .. n}

RECURSIVE lstrip(_)
lstrip(s) == IF s # <<>> /\ Head(s) = " " THEN lstrip(Tail(s)) ELSE s

RECURSIVE rstrip(_)
rstrip(s) ==
    IF s # <<>> /\ s[Len(s)] = " " THEN rstrip(SubSeq(s, 1, Len(s) - 1)) ELSE s

strip(s) == rstrip(lstrip(s))

\* s.split("#"): the list of the parts, [""] for the empty string
RECURSIVE split(_)
split(s) ==
    IF \A k \in 1 .. Len(s) : s[k] # "#"
    THEN <<s>>
    ELSE LET k == CHOOSE j \in 1 .. Len(s) :
                     s[j] = "#" /\ \A m \in 1 .. j - 1 : s[m] # "#"
         IN  <<SubSeq(s, 1, k - 1)>> \o split(SubSeq(s, k + 1, Len(s)))

\* "#".join(parts)
RECURSIVE join(_)
join(parts) ==
    IF parts = <<>> THEN <<>>
    ELSE IF Len(parts) = 1 THEN parts[1]
    ELSE parts[1] \o <<"#">> \o join(Tail(parts))

(***************************************************************************)
(* 1_api_main_v2.py: POST /analise-semantica (analise_semantica_unica,     *)
(* analisar_semantica_consignacao, parse_input_data).                      *)
(***************************************************************************)
RestAlphabet == {"a", "#", " "}
RestInputs == StringsUpTo(RestAlphabet, MaxInput)

NoFields == [id_termo |-> <<>>, cpf |-> <<>>, pratica_vedada |-> <<>>,
             justificativa |-> <<>>]

\* parse_input_data: the four fields, or {"error": ...}
parse_input_data(input_string) ==
    LET parts == split(input_string)
    IN  IF Len(parts) >= 4
        THEN [error |-> FALSE,
              data |-> [id_termo |-> parts[1], cpf |-> parts[2],
                        pratica_vedada |-> parts[3],
                        justificativa |-> join(SubSeq(parts, 4, Len(parts)))]]
        ELSE [error |-> TRUE, data |-> NoFields]

IdleRest == [pc |-> "idle", input |-> <<>>, http |-> 0, status |-> None,
             error_type |-> None, llm_called |-> FALSE, llm_failed |-> FALSE]

RestIdle == rest = IdleRest

RestInit == \E s \in RestInputs : rest = [IdleRest EXCEPT !.pc = "request", !.input = s]

\* analise_semantica_unica up to "await call_serpro_llm": strip, the empty check,
\* parse_input_data and its error answer
analise_semantica_unica ==
    /\ rest.pc = "request"
    /\ LET input_string == strip(rest.input)
           parsed_input == parse_input_data(input_string)
       IN  rest' =
             IF input_string = <<>>
             THEN [rest EXCEPT !.pc = "done", !.http = 400]
             ELSE IF parsed_input.error
             THEN [rest EXCEPT !.pc = "done", !.http = 200, !.status = "ERROR",
                               !.error_type = "PARSE_ERROR"]
             ELSE [rest EXCEPT !.pc = "llm", !.llm_called = TRUE]
    /\ UNCHANGED allButRest

\* call_serpro_llm raised SerproLLMError: status ERROR with the error's type
analisar_llm_raised ==
    /\ rest.pc = "llm"
    /\ \E error_type \in {"AUTH_ERROR", "RATE_LIMIT_ERROR", "SERVER_ERROR",
                          "TIMEOUT_ERROR", "CONNECTION_ERROR", "UNEXPECTED_ERROR"} :
          rest' = [rest EXCEPT !.pc = "done", !.http = 200, !.status = "ERROR",
                               !.error_type = error_type, !.llm_failed = TRUE]
    /\ UNCHANGED allButRest

\* call_serpro_llm returned: the final status from llm_analysis
analisar_llm_returned ==
    /\ rest.pc = "llm"
    /\ \E d \in Diagnoses \cup {Absent}, has \in BOOLEAN, c \in {0, 49, 50, 69, 70, MaxConf} :
          LET llm_result == [diagnosticoLLM |-> d, has_confidence |-> has, confidence |-> c]
          IN  rest' = [rest EXCEPT
                         !.pc = "done", !.http = 200,
                         !.status = AnalisarFinalStatus(GetDiagnostico(llm_result),
                                                        GetConfidence(llm_result))]
    /\ UNCHANGED allButRest


(***************************************************************************)
(* Validation before the LLM: models.SemanticaInput (main.py),             *)
(* FileProcessor.parse_line / validate_data / process_item, and the loop   *)
(* of main.process_file_ws.                                                *)
(***************************************************************************)
min_justificativa_length == 10      \* 0_config_v2.py VALIDATION_CONFIG
max_justificativa_length == 5000

Digits == {"0", "1", "2", "3", "4", "5", "6", "7", "8", "9"}

\* parse_line with only the fourth field as justificativa
parse_line_fourth_only(line) ==
    LET parts == split(line)
    IN  IF Len(parts) < 4
        THEN [error |-> TRUE, data |-> NoFields]
        ELSE [error |-> FALSE,
              data |-> [id_termo |-> parts[1], cpf |-> parts[2],
                        pratica_vedada |-> parts[3], justificativa |-> parts[4]]]

\* utils.parse_line: the four fields, or ValueError
utils_parse_line(line) ==
    LET parts == split(line)
    IN  IF Len(parts) < 4
        THEN [error |-> TRUE, data |-> NoFields]
        ELSE [error |-> FALSE,
              data |-> [id_termo |-> parts[1], cpf |-> parts[2],
                        pratica_vedada |-> parts[3],
                        justificativa |-> join(SubSeq(parts, 4, Len(parts)))]]

\* FileProcessor.parse_line: the four fields, or ValueError
parse_line(line) ==
    LET parts == split(line)
    IN  IF Len(parts) < 4
        THEN [error |-> TRUE, data |-> NoFields]
        ELSE [error |-> FALSE,
              data |-> [id_termo |-> parts[1], cpf |-> parts[2],
                        pratica_vedada |-> parts[3],
                        justificativa |-> join(SubSeq(parts, 4, Len(parts)))]]

\* validate_data without its checks of the size of the justificativa
validate_data_required_only(data) ==
    /\ data.id_termo # <<>>
    /\ data.cpf # <<>>
    /\ data.pratica_vedada # <<>>
    /\ data.justificativa # <<>>

\* FileProcessor.validate_data: required fields, then the size of the justificativa
validate_data(data) ==
    /\ data.id_termo # <<>>
    /\ data.cpf # <<>>
    /\ data.pratica_vedada # <<>>
    /\ data.justificativa # <<>>
    /\ ~(Len(data.justificativa) < min_justificativa_length)
    /\ ~(Len(data.justificativa) > max_justificativa_length)

\* SemanticaInput.validate_justificativa: len(v.strip()) < 10 raises
validate_justificativa(v) == ~(Len(strip(v)) < 10)

\* SemanticaInput.validate_cpf: ''.join(filter(str.isdigit, v)) must have 11 characters
isdigit(ch) == ch \in Digits
validate_cpf(v) == Len(SelectSeq(v, isdigit)) = 11

\* SemanticaInput.validate_id_termo: not v.strip() raises
validate_id_termo(v) == strip(v) # <<>>

\* SemanticaInput(...): the object is built only when every validator passes
SemanticaInput(data) ==
    /\ validate_id_termo(data.id_termo)
    /\ validate_cpf(data.cpf)
    /\ validate_justificativa(data.justificativa)

\* the lines of the files: fields of several sizes joined by "#", read with line.strip()
IdSamples == {<<>>, <<" ">>, <<"T">>}
CpfSamples == {Rep("1", 10), Rep("1", 11), Rep("1", 12),
               <<"1", "1", "1", ".", "1", "1", "1", ".", "1", "1", "1", "-", "1", "1">>}
PraticaSamples == {<<>>, <<"1", "2">>}
JustSamples ==
    {Rep(" ", a) \o Rep("x", b) \o Rep(" ", c) : a \in 0 .. 1, b \in 0 .. MaxJust, c \in 0 .. 1}
    \cup {Rep("x", 4) \o <<"#">> \o Rep("x", b) : b \in 4 .. 5}
FullLines ==
    {strip(join(<<i, c, p, j>>)) :
        i \in IdSamples, c \in CpfSamples, p \in PraticaSamples, j \in JustSamples}
ShortLines == {<<"x">>, Rep("x", MaxJust), <<"T", "#", "1", "#", "x">>}
Lines == (FullLines \cup ShortLines) \ {<<>>}
SecondLines == {join(<<<<"T">>, Rep("1", 11), <<"1", "2">>, Rep("x", b)>>) : b \in {9, 10}}

IdleVal == [who |-> None, lines |-> <<>>, i |-> 0, pc |-> "idle", results |-> <<>>,
            errors |-> 0, approved |-> 0, rejected |-> 0, review_required |-> 0]

ValIdle == val = IdleVal

ValInit ==
    \/ \E l \in Lines :
          val = [IdleVal EXCEPT !.who = "FileProcessor", !.lines = <<l>>, !.i = 1,
                                !.pc = "item"]
    \/ \E l1 \in Lines, l2 \in SecondLines :
          val = [IdleVal EXCEPT !.who = "main", !.lines = <<l1, l2>>, !.i = 1,
                                !.pc = "item"]

\* what became of one line: the status and error_type of its result, the chat
\* requests it caused, the errors it added to results_summary
ItemResult(status, error_type, chat, errors) ==
    [status |-> status, error_type |-> error_type, chat |-> chat, errors |-> errors]

\* chat-completion requests of one LLM call that returned / that raised
ChatsReturned == {1, max_retries}
ChatsRaised == {0, 1, max_retries}

\* FileProcessor.process_item up to "await self.call_serpro_llm(prompt)"
process_item ==
    /\ val.who = "FileProcessor"
    /\ val.pc = "item"
    /\ LET parsed == parse_line(val.lines[val.i])
       IN  val' =
             IF parsed.error
             THEN [val EXCEPT !.pc = "done",
                              !.results = Append(@, ItemResult("ERROR", "ValueError", 0, 0))]
             ELSE IF ~validate_data(parsed.data)
             THEN [val EXCEPT !.pc = "done",
                              !.results = Append(@, ItemResult("ERROR", "VALIDATION_ERROR", 0, 0))]
             ELSE [val EXCEPT !.pc = "llm"]
    /\ UNCHANGED allButVal

\* FileProcessor.process_item after the LLM call: the status of the result, or the
\* except branch when the call raised
process_item_llm ==
    /\ val.who = "FileProcessor"
    /\ val.pc = "llm"
    /\ \/ \E body \in Bodies, k \in ChatsReturned :
             val' = [val EXCEPT
                       !.pc = "done",
                       !.results = Append(@, ItemResult(
                           ProcessItemStatus(body.diagnosticoLLM, body.confidence),
                           None, k, 0))]
       \/ \E k \in ChatsRaised :
             val' = [val EXCEPT
                       !.pc = "done",
                       !.results = Append(@, ItemResult("ERROR", "Exception", k, 0))]
    /\ UNCHANGED allButVal

\* main.process_file_ws, one turn of the loop up to "await analise_semantica(entrada)":
\* parse_line and SemanticaInput raise into the except branch, which counts one error
process_file_ws_item ==
    /\ val.who = "main"
    /\ val.pc = "item"
    /\ LET parsed == utils_parse_line(val.lines[val.i])
       IN  val' =
             IF parsed.error \/ ~SemanticaInput(parsed.data)
             THEN [val EXCEPT !.pc = "next", !.errors = @ + 1,
                              !.results = Append(@, ItemResult(None, "Exception", 0, 1))]
             ELSE [val EXCEPT !.pc = "llm"]
    /\ UNCHANGED allButVal

\* main.process_file_ws after analise_semantica: results_summary[status.lower()] += 1,
\* or the except branch when it raised HTTPException(500)
process_file_ws_llm ==
    /\ val.who = "main"
    /\ val.pc = "llm"
    /\ \/ \E body \in Bodies, k \in ChatsReturned :
             LET status == classify_result(body.diagnosticoLLM, body.confidence)
             IN  val' = [val EXCEPT
                           !.pc = "next",
                           !.approved = IF status = "APPROVED" THEN @ + 1 ELSE @,
                           !.rejected = IF status = "REJECTED" THEN @ + 1 ELSE @,
                           !.review_required =
                               IF status = "REVIEW_REQUIRED" THEN @ + 1 ELSE @,
                           !.results = Append(@, ItemResult(status, None, k, 0))]
       \/ \E k \in ChatsRaised :
             val' = [val EXCEPT
                       !.pc = "next", !.errors = @ + 1,
                       !.results = Append(@, ItemResult(None, "HTTPException", k, 1))]
    /\ UNCHANGED allButVal

\* main.process_file_ws: the message of the item was sent (and the pause ended):
\* the next line, or {"status": "completed"}
process_file_ws_next ==
    /\ val.who = "main"
    /\ val.pc = "next"
    /\ val' = IF val.i < Len(val.lines)
              THEN [val EXCEPT !.pc = "item", !.i = @ + 1]
              ELSE [val EXCEPT !.pc = "completed"]
    /\ UNCHANGED allButVal

(***************************************************************************)
(* parse_line (utils.py and FileProcessor) on one line, and                *)
(* SemanticaInput.to_internal_format.                                      *)
(***************************************************************************)
LineAlphabet == {"a", "#", " "}
ParseLines == StringsUpTo(LineAlphabet, MaxLine)

\* SemanticaInput.to_internal_format: f"{id_termo}#{cpf}#{pratica_vedada}#{justificativa}"
to_internal_format(data) ==
    data.id_termo \o <<"#">> \o data.cpf \o <<"#">> \o data.pratica_vedada
        \o <<"#">> \o data.justificativa

NotParsed == [called |-> FALSE, error |-> FALSE, data |-> NoFields]

IdleParse == [line |-> <<>>, utils |-> NotParsed, processor |-> NotParsed]

ParseIdle == pl = NotRunning

ParseInit == \E line \in ParseLines : pl = [IdleParse EXCEPT !.line = line]

\* utils.parse_line(line)
ParseLineUtils ==
    /\ ~pl.utils.called
    /\ LET r == utils_parse_line(pl.line)
       IN  pl' = [pl EXCEPT !.utils = [called |-> TRUE, error |-> r.error, data |-> r.data]]
    /\ UNCHANGED allButParse

\* FileProcessor.parse_line(line)
ParseLineProcessor ==
    /\ ~pl.processor.called
    /\ LET r == parse_line(pl.line)
       IN  pl' = [pl EXCEPT !.processor = [called |-> TRUE, error |-> r.error, data |-> r.data]]
    /\ UNCHANGED allButParse

(***************************************************************************)
(* scripts/2_PDFs/1_encontra_duplicados.py: mapear_por_hash, then          *)
(* mover_arquivos.  A file name is a sequence: <<1>> is "a.pdf",           *)
(* <<1, 1>> is "a_1.pdf" (the stem, then the suffixes).  A path is a       *)
(* folder under RAIZ (0 is RAIZ itself) and a name.                        *)
(***************************************************************************)
Hashes == 1 .. MaxHashes
ScanPaths == {[dir |-> 0, name |-> <<1>>], [dir |-> 1, name |-> <<1>>],
              [dir |-> 0, name |-> <<1, 1>>], [dir |-> 1, name |-> <<2>>]}
NoPath == [dir |-> 0, name |-> <<>>]

\* the order of the names as strings: "a.pdf" < "a_1.pdf" < "b.pdf" < "sub"
NameKey(name) == IF name = <<1>> THEN 1 ELSE IF name = <<1, 1>> THEN 2 ELSE 3
DirKey == 4

\* Path.__lt__: the parts of the paths compared as tuples
PathParts(p) == IF p.dir = 0 THEN <<NameKey(p.name)>> ELSE <<DirKey, NameKey(p.name)>>

RECURSIVE TupleLess(_, _)
TupleLess(a, b) ==
    IF a = <<>> THEN b # <<>>
    ELSE IF b = <<>> THEN FALSE
    ELSE IF Head(a) # Head(b) THEN Head(a) < Head(b)
    ELSE TupleLess(Tail(a), Tail(b))

\* sorted(arquivos)
RECURSIVE sorted(_)
sorted(arquivos) ==
    IF arquivos = {} THEN <<>>
    ELSE LET first == CHOOSE p \in arquivos :
                         \A q \in arquivos \ {p} : TupleLess(PathParts(p), PathParts(q))
         IN  <<first>> \o sorted(arquivos \ {first})

Names(folder) == {f.name : f \in folder}

\* the destination that replaces whatever holds the name
SameName(folder, name) == name

\* destino = DIR / name; while destino.exists(): DIR / f"{stem}_{sufixo}{suffix}"
FreeName(folder, name) ==
    IF name \notin Names(folder) THEN name
    ELSE LET k == CHOOSE j \in 1 .. Cardinality(folder) + 1 :
                     /\ name \o <<j>> \notin Names(folder)
                     /\ \A m \in 1 .. j - 1 : name \o <<m>> \in Names(folder)
         IN  name \o <<k>>

\* shutil.move(str(original), str(destino)): the file takes the name in the folder
Move(folder, file, name) ==
    {f \in folder : f.name # name} \cup {[name |-> name, hash |-> file.hash, from |-> file.path]}

\* for dup in ordenados[1:]: each one moved to REPETITION in turn
RECURSIVE MoveAll(_, _)
MoveAll(folder, files) ==
    IF files = <<>> THEN folder
    ELSE MoveAll(Move(folder, Head(files), FreeName(folder, Head(files).name)), Tail(files))

IdleDedup == [pc |-> "idle", raiz |-> {}, UNIQUE |-> {}, REPETITION |-> {},
              mapeamento |-> <<>>, arquivos_encontrados |-> 0,
              cont_unicos |-> 0, cont_repetidos |-> 0,
              raiz0 |-> {}, unique0 |-> {}, repetition0 |-> {}]

DedupIdle == dd = NotRunning

\* the tree before the run: files under RAIZ, and what UNIQUE and REPETITION hold
\* from an earlier run (INCLUIR_DESTINOS = False: not scanned)
OldFile(name) == [name |-> name, hash |-> 0, from |-> NoPath]

DedupInit ==
    \E present \in SUBSET ScanPaths, u \in SUBSET {<<1>>, <<1, 1>>}, r \in SUBSET {<<1>>} :
    \E content \in [present -> Hashes] :
        LET raiz == {[path |-> p, name |-> p.name, hash |-> content[p]] : p \in present}
            un == {OldFile(n) : n \in u}
            re == {OldFile(n) : n \in r}
        IN  dd = [IdleDedup EXCEPT !.pc = "map", !.raiz = raiz, !.UNIQUE = un,
                                   !.REPETITION = re, !.raiz0 = raiz,
                                   !.unique0 = un, !.repetition0 = re]

\* mapear_por_hash: one list of paths per hash, the hashes in the order rglob met them
mapear_por_hash ==
    /\ dd.pc = "map"
    /\ LET hs == {f.hash : f \in dd.raiz}
       IN  \E order \in [1 .. Cardinality(hs) -> hs] :
              /\ \A i, j \in 1 .. Cardinality(hs) : i # j => order[i] # order[j]
              /\ dd' = [dd EXCEPT
                          !.pc = "move",
                          !.arquivos_encontrados = Cardinality(dd.raiz),
                          !.mapeamento =
                              [i \in 1 .. Cardinality(hs) |->
                                  {f.path : f \in {g \in dd.raiz : g.hash = order[i]}}]]
    /\ UNCHANGED allButDedup

\* mover_arquivos, one turn of "for arquivos in mapeamento.values()"
mover_arquivos ==
    /\ dd.pc = "move"
    /\ dd.mapeamento # <<>>
    /\ LET ordenados == sorted(Head(dd.mapeamento))
           FileAt(p) == CHOOSE f \in dd.raiz : f.path = p
           original == FileAt(ordenados[1])
           dups == [i \in 1 .. Len(ordenados) - 1 |-> FileAt(ordenados[i + 1])]
       IN  dd' = [dd EXCEPT
                    !.raiz = {f \in @ : f.path \notin Head(dd.mapeamento)},
                    !.UNIQUE = Move(@, original, FreeName(@, original.name)),
                    !.REPETITION = MoveAll(@, dups),
                    !.cont_unicos = @ + 1,
                    !.cont_repetidos = @ + Len(dups),
                    !.mapeamento = Tail(@)]
    /\ UNCHANGED allButDedup

\* mover_arquivos after its loop: the statistics are printed
mover_arquivos_fim ==
    /\ dd.pc = "move"
    /\ dd.mapeamento = <<>>
    /\ dd' = [dd EXCEPT !.pc = "done"]
    /\ UNCHANGED allButDedup

(***************************************************************************)
(* The keyword fallback of the four response parsers.  A content is the    *)
(* set of words of the text (accents dropped: "valido" is "válido", "nao"  *)
(* is "não"), or not a text at all (the "content" of the response is null).*)
(***************************************************************************)
Vocabulary ==
    {"sim", "SIM", "assim", "aprovado", "valido", "invalido", "procedente",
     "autorizacao", "liquidado", "credito",
     "nao", "rejeitado", "taxa", "boleto", "renegociar"}

Contents ==
    [is_str : {TRUE}, words : SUBSET Vocabulary] \cup {[is_str |-> FALSE, words |-> {}]}

\* str.lower, word by word
lower(w) == IF w = "SIM" THEN "sim" ELSE w

\* word in content_lower: the keyword is a substring of some word of the text
IsSubstring(keyword, w) ==
    \/ keyword = w
    \/ keyword = "sim" /\ w = "assim"
    \/ keyword = "valido" /\ w = "invalido"

Found(keyword, content) == \E w \in content.words : IsSubstring(keyword, lower(w))

\* sum(1 for word in words if word in content_lower)
CountFound(words, content) == Cardinality({k \in words : Found(k, content)})

\* the comparison with >= in place of >: a tie would answer SIM
KeywordFallbackTieSim(approve_words, reject_words, cap, content) ==
    LET approve_count == CountFound(approve_words, content)
        reject_count == CountFound(reject_words, content)
    IN  IF approve_count >= reject_count
        THEN [outcome |-> "returned", diagnosticoLLM |-> "SIM",
              confidence |-> Min(cap, 50 + approve_count * 10)]
        ELSE [outcome |-> "returned", diagnosticoLLM |-> "NAO",
              confidence |-> Min(cap, 50 + reject_count * 10)]

\* the counting and the if/else shared by the four functions
KeywordFallback(approve_words, reject_words, cap, content) ==
    LET approve_count == CountFound(approve_words, content)
        reject_count == CountFound(reject_words, content)
    IN  IF approve_count > reject_count
        THEN [outcome |-> "returned", diagnosticoLLM |-> "SIM",
              confidence |-> Min(cap, 50 + approve_count * 10)]
        ELSE [outcome |-> "returned", diagnosticoLLM |-> "NAO",
              confidence |-> Min(cap, 50 + reject_count * 10)]

\* content.lower() on a content that is not a str: AttributeError
FallbackRaised == [outcome |-> "raised", diagnosticoLLM |-> "", confidence |-> 0]

approve_words == {"sim", "aprovado", "valido", "procedente", "autorizacao", "liquidado", "credito"}
reject_words == {"nao", "rejeitado", "invalido", "taxa", "boleto", "renegociar"}
serpro_approve_words == {"sim", "aprovado", "valido", "autorizacao"}
serpro_reject_words == {"nao", "rejeitado", "invalido", "boleto"}

\* SerproClient.create_fallback: the whole body is in a try whose except
\* returns NÃO with confidence 0.1
create_fallback(content) ==
    IF content.is_str
    THEN KeywordFallback(serpro_approve_words, serpro_reject_words, 80, content)
    ELSE [outcome |-> "returned", diagnosticoLLM |-> "NAO", confidence |-> 10]

\* FileProcessor.create_fallback_response
create_fallback_response(content) ==
    IF content.is_str
    THEN KeywordFallback(approve_words, reject_words, 90, content)
    ELSE FallbackRaised

\* SerproLLMConnector.create_fallback_response
connector_create_fallback_response(content) ==
    IF content.is_str
    THEN KeywordFallback(approve_words, reject_words, 90, content)
    ELSE FallbackRaised

\* TesteLLMManual.create_fallback_response
teste_create_fallback_response(content) ==
    IF content.is_str
    THEN KeywordFallback(approve_words, reject_words, 90, content)
    ELSE FallbackRaised

NoFallback == [outcome |-> "none", diagnosticoLLM |-> "", confidence |-> 0]

IdleFallback ==
    [content |-> [is_str |-> TRUE, words |-> {}], class |-> None,
     result |-> NoFallback, status |-> None]

FallbackIdle == fb = NotRunning

FallbackInit == \E content \in Contents : fb = [IdleFallback EXCEPT !.content = content]

FallbackStatus(result, status) ==
    IF result.outcome = "returned" THEN status ELSE None

\* SerproClient.parse_response falls back; main.py classifies with classify_result
FallbackSerproClient ==
    /\ fb.class = None
    /\ LET result == create_fallback(fb.content)
       IN  fb' = [fb EXCEPT !.class = "SerproClient", !.result = result,
                      !.status = FallbackStatus(result,
                                    classify_result(result.diagnosticoLLM, result.confidence))]
    /\ UNCHANGED allButFallback

\* FileProcessor.parse_llm_response falls back; process_item classifies
FallbackFileProcessor ==
    /\ fb.class = None
    /\ LET result == create_fallback_response(fb.content)
       IN  fb' = [fb EXCEPT !.class = "FileProcessor", !.result = result,
                      !.status = FallbackStatus(result,
                                    ProcessItemStatus(result.diagnosticoLLM, result.confidence))]
    /\ UNCHANGED allButFallback

\* SerproLLMConnector.parse_llm_response falls back;
\* analisar_semantica_consignacao classifies
FallbackConnector ==
    /\ fb.class = None
    /\ LET result == connector_create_fallback_response(fb.content)
       IN  fb' = [fb EXCEPT !.class = "SerproLLMConnector", !.result = result,
                      !.status = FallbackStatus(result,
                                    AnalisarFinalStatus(result.diagnosticoLLM, result.confidence))]
    /\ UNCHANGED allButFallback

\* TesteLLMManual.parse_llm_response falls back; the result is only printed
FallbackTeste ==
    /\ fb.class = None
    /\ LET result == teste_create_fallback_response(fb.content)
       IN  fb' = [fb EXCEPT !.class = "TesteLLMManual", !.result = result]
    /\ UNCHANGED allButFallback

(***************************************************************************)
(* SerproLLMConnector._calculate_retry_delay.  Waits are counted in        *)
(* RetryUnit-ths of a second, fine enough for every power of 1.5 and every *)
(* jitter of the model to be a whole number; time.time() % 1 is drawn in   *)
(* quarters of a second.                                                   *)
(***************************************************************************)
RetryUnit == 40 * 2 ^ MaxAttempt

RECURSIVE Pow(_, _)
Pow(b, n) == IF n = 0 THEN 1 ELSE b * Pow(b, n - 1)

\* MAX_DELAY in the environment: the default and one a backoff can reach
MaxDelays == {2, max_delay}

\* response.headers.get('Retry-After') of a 429
NoHeader == [present |-> FALSE, value |-> 0]
RetryAfterHeaders == {NoHeader} \cup [present : {TRUE}, value : {0, 1, 5, 60}]

\* time.time() % 1, in quarters
Fractions == 0 .. 3

\* _categorize_request_error: retry_after = int(retry_after) if retry_after else None
\* (the header is a non-empty string when present)
NoRetryAfter == [is_none |-> TRUE, value |-> 0]
ErrorDetailRetryAfter(header) ==
    IF header.present THEN [is_none |-> FALSE, value |-> header.value] ELSE NoRetryAfter

\* if error_detail.retry_after: None and 0 are both false
RetryAfterTruthy(retry_after) == ~retry_after.is_none /\ retry_after.value # 0

\* delay = base_delay * (backoff ** (attempt - 1))
BackoffDelay(attempt) ==
    (retry_delay * RetryUnit * Pow(backoff_multiplier_num, attempt - 1))
        \div Pow(backoff_multiplier_den, attempt - 1)

\* jitter = delay * 0.1 * (0.5 - time.time() % 1)
Jitter(delay, fraction) == (delay * (2 - fraction)) \div 40

\* _calculate_retry_delay(attempt, error_detail): the wait and the branch taken
calculate_retry_delay(attempt, retry_after, fraction, maxd) ==
    IF RetryAfterTruthy(retry_after)
    THEN [delay |-> Min(retry_after.value * RetryUnit, maxd * RetryUnit), backoff |-> FALSE]
    ELSE LET delay == BackoffDelay(attempt)
             jitter == Jitter(delay, fraction)
         IN  [delay |-> Min(delay + jitter, maxd * RetryUnit), backoff |-> TRUE]

IdleRetry ==
    [max_delay |-> max_delay, called |-> FALSE, attempt |-> 0, header |-> NoHeader,
     fraction |-> 0, delay |-> 0, backoff |-> FALSE]

RetryIdle == rd = NotRunning

RetryInit == \E m \in MaxDelays : rd = [IdleRetry EXCEPT !.max_delay = m]

\* a failed attempt: the error is categorised and the wait computed
CalculateRetryDelay ==
    /\ \E attempt \in 1 .. MaxAttempt, header \in RetryAfterHeaders, fraction \in Fractions :
          LET r == calculate_retry_delay(attempt, ErrorDetailRetryAfter(header),
                                         fraction, rd.max_delay)
          IN  rd' = [rd EXCEPT !.called = TRUE, !.attempt = attempt, !.header = header,
                          !.fraction = fraction, !.delay = r.delay, !.backoff = r.backoff]
    /\ UNCHANGED allButRetry

(***************************************************************************)
(* AE_semantica_functions.filtrar_por_similaridade.  A DataFrame is the    *)
(* sequence of its rows, each with its index label and its "ID TERMO";     *)
(* df_similares is read only through set(ID_BASE) and set(ID_COMPARADA),   *)
(* so it is the set of its (ID_BASE, ID_COMPARADA) rows.                   *)
(***************************************************************************)
Ids == 1 .. MaxIds

RECURSIVE SeqsUpTo(_, _)
SeqsUpTo(S, n) ==
    IF n = 0 THEN {<<>>}
    ELSE LET shorter == SeqsUpTo(S, n - 1)
         IN  shorter \cup {Append(q, x) : q \in {t \in shorter : Len(t) = n - 1}, x \in S}

\* a DataFrame with a fresh RangeIndex over the given ID TERMO column
DataFrame(ids) == [i \in 1 .. Len(ids) |-> [index |-> i, ID_TERMO |-> ids[i]]]

DataFrames == {DataFrame(ids) : ids \in SeqsUpTo(Ids, MaxRows)}

SimilarTables ==
    {t \in SUBSET [ID_BASE : Ids, ID_COMPARADA : Ids] : Cardinality(t) <= MaxPairs}

\* set(df[column])
ColumnSet(df, column) == {df[i][column] : i \in DOMAIN df}

\* df[df["ID TERMO"].isin(ids)] and df[~df["ID TERMO"].isin(ids)]
RowsIsin(df, ids) ==
    LET Test(row) == row.ID_TERMO \in ids
    IN  SelectSeq(df, Test)

RowsNotIsin(df, ids) ==
    LET Test(row) == row.ID_TERMO \notin ids
    IN  SelectSeq(df, Test)

\* every ID_COMPARADA taken for a duplicate, the ID_BASE not subtracted
ids_comparada_only(df_similares) == {r.ID_COMPARADA : r \in df_similares}

\* ids_repetidos_puros = ids_comparada - ids_base
ids_repetidos_puros(df_similares) ==
    LET ids_base == {r.ID_BASE : r \in df_similares}
        ids_comparada == {r.ID_COMPARADA : r \in df_similares}
    IN  ids_comparada \ ids_base

filtrar_por_similaridade(df, df_similares) ==
    LET ids_base == {r.ID_BASE : r \in df_similares}
        puros == ids_repetidos_puros(df_similares)
        ids_presentes == ColumnSet(df, "ID_TERMO")
        ids_filtrados == puros \cap ids_presentes
    IN  IF puros \cap ids_base # {}
        THEN [outcome |-> "AssertionError", df_filtrado |-> <<>>, df_duplicados |-> <<>>,
              ids_filtrados |-> {}]
        ELSE [outcome |-> "returned",
              df_filtrado |-> RowsNotIsin(df, ids_filtrados),
              df_duplicados |-> RowsIsin(df, ids_filtrados),
              ids_filtrados |-> ids_filtrados]

NoFiltro == [outcome |-> "none", df_filtrado |-> <<>>, df_duplicados |-> <<>>, ids_filtrados |-> {}]

IdleFiltro == [df |-> <<>>, df_similares |-> {}, result |-> NoFiltro]

FiltroIdle == fs = NotRunning

FiltroInit ==
    \E df \in DataFrames, t \in SimilarTables :
        fs = [IdleFiltro EXCEPT !.df = df, !.df_similares = t]

FiltrarPorSimilaridade ==
    /\ fs.result.outcome = "none"
    /\ fs' = [fs EXCEPT !.result = filtrar_por_similaridade(fs.df, fs.df_similares)]
    /\ UNCHANGED allButFiltro

(***************************************************************************)
(* AE_semantica_v0.42.py and exibir_resumo_final.  A row is its ID TERMO   *)
(* and its JUSTIFICATIVA; a CSV file of the directory is absent or holds   *)
(* rows.  The three text filters are given by their value on each sample   *)
(* text.                                                                   *)
(***************************************************************************)
Justificativas == {"desconto indevido", "abcdefghijkl", "@", "---", "a a a a a"}

\* filtro_ruido: [a-zA-Z]{10,} or [^a-zA-Z0-9\s]{3,}
filtro_ruido(texto) == texto \in {"abcdefghijkl", "---"}

\* the mask of filtrar_por_regex: ^\s*$|^[@\.\-]+$
regex_match(texto) == texto \in {"@", "---"}

\* eh_repetitiva: at least 4 words, fewer than 40% of them distinct
eh_repetitiva(texto) == texto = "a a a a a"

OriginalRows == [ID_TERMO : Ids, JUSTIFICATIVA : Justificativas]

\* df[mask] and df[~mask] for a mask over JUSTIFICATIVA
MaskRuido(row) == filtro_ruido(row.JUSTIFICATIVA)
MaskRegex(row) == regex_match(row.JUSTIFICATIVA)
MaskRepet(row) == eh_repetitiva(row.JUSTIFICATIVA)
NotMaskRuido(row) == ~filtro_ruido(row.JUSTIFICATIVA)
NotMaskRegex(row) == ~regex_match(row.JUSTIFICATIVA)
NotMaskRepet(row) == ~eh_repetitiva(row.JUSTIFICATIVA)

\* set(df["ID TERMO"])
IdSet(df) == {df[i].ID_TERMO : i \in DOMAIN df}

\* df.loc[df["ID TERMO"].isin(ids)] and df.loc[~df["ID TERMO"].isin(ids)]
LocIsin(df, ids) ==
    LET Test(row) == row.ID_TERMO \in ids
    IN  SelectSeq(df, Test)

LocNotIsin(df, ids) ==
    LET Test(row) == row.ID_TERMO \notin ids
    IN  SelectSeq(df, Test)

\* drop_duplicates(subset="ID TERMO"): the first row of each ID is kept
RECURSIVE drop_duplicates(_)
drop_duplicates(df) ==
    IF df = <<>> THEN <<>>
    ELSE LET front == drop_duplicates(SubSeq(df, 1, Len(df) - 1))
             last == df[Len(df)]
         IN  IF last.ID_TERMO \in IdSet(front) THEN front ELSE Append(front, last)

NoFile == [exists |-> FALSE, rows |-> <<>>]
to_csv(df) == [exists |-> TRUE, rows |-> df]

FileNames ==
    {"justificativas_filtradas_por_ruido.csv", "justificativas_filtradas_por_regex.csv",
     "justificativas_filtradas_por_repeticao.csv", "filtro_tfidf_pares_redundantes.csv",
     "1_filtrados_consignacao.csv", "2_consignacao_aprovado.csv"}

\* registrar_reprovados: the file is written only when a row is new
registrar_reprovados(files, nome_arquivo, df_reprovado, ids_ja_salvos) ==
    LET df_unicos == LocNotIsin(df_reprovado, ids_ja_salvos)
    IN  [ids_unicos |-> IdSet(df_unicos),
         files |-> IF df_unicos # <<>>
                   THEN [files EXCEPT ![nome_arquivo] = to_csv(df_unicos)]
                   ELSE files]

NoSummary ==
    [total_original |-> 0, total_regex |-> 0, total_ruido |-> 0, total_pares_repetido |-> 0,
     total_repet |-> 0, total_reprovados |-> 0, total_aprovados |-> 0]

\* exibir_resumo_final(df_original, total_original) over the files of the directory:
\* pd.read_csv of an absent file raises FileNotFoundError
exibir_resumo_final(files, df_original, total_original) ==
    LET regex == files["justificativas_filtradas_por_regex.csv"]
        ruido == files["justificativas_filtradas_por_ruido.csv"]
        pairs == files["filtro_tfidf_pares_redundantes.csv"]
        repet == files["justificativas_filtradas_por_repeticao.csv"]
        files1 == [files EXCEPT !["1_filtrados_consignacao.csv"] =
                                    to_csv(drop_duplicates(regex.rows))]
        df_reprovados1 == files1["1_filtrados_consignacao.csv"].rows
        ids1 == IdSet(df_reprovados1)
        novos_ruido == LocNotIsin(ruido.rows, ids1)
        df_reprovados2 == df_reprovados1 \o novos_ruido
        ids2 == ids1 \cup IdSet(novos_ruido)
        ids_pairs == IF pairs.exists
                     THEN {r.ID_BASE : r \in pairs.rows} \cup {r.ID_COMPARADA : r \in pairs.rows}
                     ELSE {}
        novos_pairs == ids_pairs \ ids2
        df_reprovados3 == df_reprovados2 \o LocIsin(df_original, novos_pairs)
        ids3 == ids2 \cup novos_pairs
        novos_repet == LocNotIsin(repet.rows, ids3)
        df_reprovados4 == df_reprovados3 \o novos_repet
        ids_reprovados == ids3 \cup IdSet(novos_repet)
        total_reprovados == Cardinality(ids_reprovados)
        df_aprovados == LocNotIsin(df_original, ids_reprovados)
    IN  IF ~regex.exists THEN [outcome |-> "FileNotFoundError", files |-> files,
                               printed |-> NoSummary]
        ELSE IF ~ruido.exists \/ ~repet.exists
        THEN [outcome |-> "FileNotFoundError", files |-> files1, printed |-> NoSummary]
        ELSE [outcome |-> "returned",
              files |-> [files1 EXCEPT
                            !["1_filtrados_consignacao.csv"] =
                                to_csv(drop_duplicates(df_reprovados4)),
                            !["2_consignacao_aprovado.csv"] =
                                to_csv(drop_duplicates(df_aprovados))],
              printed |-> [total_original |-> total_original,
                           total_regex |-> Cardinality(IdSet(regex.rows)),
                           total_ruido |-> Len(novos_ruido),
                           total_pares_repetido |-> Cardinality(novos_pairs),
                           total_repet |-> Len(novos_repet),
                           total_reprovados |-> total_reprovados,
                           total_aprovados |-> total_original - total_reprovados]]

\* the directory before the run: no file, or the pairs file of an earlier TF-IDF run
EmptyDirectory == [f \in FileNames |-> NoFile]

PairsFiles == {NoFile, [exists |-> TRUE, rows |-> {[ID_BASE |-> 1, ID_COMPARADA |-> 2]}]}

IdleResumo ==
    [pc |-> "idle", df_inicial |-> <<>>, df_restante |-> <<>>, ids_reprovados_total |-> {},
     files |-> EmptyDirectory, outcome |-> "none", printed |-> NoSummary]

ResumoIdle == rs = NotRunning

\* df_inicial = carregar_csv(ARQUIVO_CSV); df_restante = df_inicial.copy()
ResumoInit ==
    \E df \in SeqsUpTo(OriginalRows, MaxOriginal), pairs \in PairsFiles :
        rs = [IdleResumo EXCEPT
                 !.pc = "ruido", !.df_inicial = df, !.df_restante = df,
                 !.files = [EmptyDirectory EXCEPT !["filtro_tfidf_pares_redundantes.csv"] = pairs]]

\* === 1. Ruído
MainRuido ==
    /\ rs.pc = "ruido"
    /\ LET df_ruido == SelectSeq(rs.df_restante, MaskRuido)
           r == registrar_reprovados(rs.files, "justificativas_filtradas_por_ruido.csv",
                                     df_ruido, rs.ids_reprovados_total)
       IN  rs' = [rs EXCEPT !.pc = "regex",
                      !.df_restante = SelectSeq(rs.df_restante, NotMaskRuido),
                      !.files = r.files,
                      !.ids_reprovados_total = @ \cup r.ids_unicos]
    /\ UNCHANGED allButResumo

\* === 2. Regex
MainRegex ==
    /\ rs.pc = "regex"
    /\ LET df_regex == SelectSeq(rs.df_restante, MaskRegex)
           r == registrar_reprovados(rs.files, "justificativas_filtradas_por_regex.csv",
                                     df_regex, rs.ids_reprovados_total)
       IN  rs' = [rs EXCEPT !.pc = "repeticao",
                      !.df_restante = SelectSeq(rs.df_restante, NotMaskRegex),
                      !.files = r.files,
                      !.ids_reprovados_total = @ \cup r.ids_unicos]
    /\ UNCHANGED allButResumo

\* === 4. Repetição
MainRepeticao ==
    /\ rs.pc = "repeticao"
    /\ LET df_repet == SelectSeq(rs.df_restante, MaskRepet)
           r == registrar_reprovados(rs.files, "justificativas_filtradas_por_repeticao.csv",
                                     df_repet, rs.ids_reprovados_total)
       IN  rs' = [rs EXCEPT !.pc = "resumo",
                      !.df_restante = SelectSeq(rs.df_restante, NotMaskRepet),
                      !.files = r.files,
                      !.ids_reprovados_total = @ \cup r.ids_unicos]
    /\ UNCHANGED allButResumo

\* funcoes.exibir_resumo_final(df_inicial, len(df_inicial))
MainResumoFinal ==
    /\ rs.pc = "resumo"
    /\ LET r == exibir_resumo_final(rs.files, rs.df_inicial, Len(rs.df_inicial))
       IN  rs' = [rs EXCEPT !.pc = "done", !.files = r.files, !.outcome = r.outcome,
                      !.printed = r.printed]
    /\ UNCHANGED allButResumo

(***************************************************************************)
(* 3_filtra_md.py.  The content of a .md file is the set of the patterns   *)
(* of mappings that re.search finds in it (accents dropped in the names),  *)
(* or it cannot be read as UTF-8.  The file of index i is "i.md" and its   *)
(* PDF "i.pdf".                                                            *)
(***************************************************************************)
mappings ==
    << [pattern |-> "COMPROVANTE DE RENDIMENTOS", dest_folder |-> "COMPROVANTE DE RENDIMENTOS"],
       [pattern |-> "Comprovante de Pagamento", dest_folder |-> "comprovante de pagamento"],
       [pattern |-> "IDENTIFICACAO DO REPRESENTANTE LEGAL DO CONSIGNATARIO",
        dest_folder |-> "declaracao"],
       [pattern |-> "Extrato de Consignacoes Vigentes",
        dest_folder |-> "extrato de consignacoes vigentes"],
       [pattern |-> "Solicitacao de Liquidacao Antecipada", dest_folder |-> "-odd"],
       [pattern |-> "(?:\\d[ ]?){47,48}", dest_folder |-> "boleto"],
       [pattern |-> "Calculo de Liquidacao Antecipada",
        dest_folder |-> "calculo de quitacao antecipada"],
       [pattern |-> "COMPROVANTE DE PAGAMENTO", dest_folder |-> "comprovante de pagamento"],
       [pattern |-> "Detalhe Consignacao", dest_folder |-> "detalhe consignacao"] >>

Patterns == {mappings[k].pattern : k \in DOMAIN mappings}
Folders == {mappings[k].dest_folder : k \in DOMAIN mappings}

\* texts with no pattern, one pattern, two patterns next to each other in mappings,
\* or all of them
MdContents ==
    {{}} \cup {{mappings[k].pattern} : k \in DOMAIN mappings}
         \cup {{mappings[k].pattern, mappings[k + 1].pattern} : k \in 1 .. Len(mappings) - 1}
         \cup {Patterns}

\* a .md file of cwd: readable or not, what its text matches, whether i.pdf is in cwd
MdFiles ==
    [readable : {TRUE}, matches : MdContents, has_pdf : BOOLEAN]
        \cup [readable : {FALSE}, matches : {{}}, has_pdf : BOOLEAN]

\* re.search(pattern, content)
re_search(pattern, content) == pattern \in content

NoFolder == "."

\* the mappings tried from the last to the first
RECURSIVE last_match(_, _)
last_match(content, k) ==
    IF k > Len(mappings) THEN NoFolder
    ELSE LET later == last_match(content, k + 1)
         IN  IF later # NoFolder THEN later
             ELSE IF re_search(mappings[k].pattern, content) THEN mappings[k].dest_folder
             ELSE NoFolder

\* for pattern, dest_folder in mappings: if re.search(pattern, content): ... break / else
RECURSIVE first_match(_, _)
first_match(content, k) ==
    IF k > Len(mappings) THEN NoFolder
    ELSE IF re_search(mappings[k].pattern, content) THEN mappings[k].dest_folder
    ELSE first_match(content, k + 1)

ZeroStats == [d \in Folders |-> 0]

IdleFiltraMd ==
    [md_files |-> <<>>, i |-> 1, md_moves |-> <<>>, pdf_moves |-> <<>>,
     moved_pdf_stats |-> ZeroStats, moved_md_stats |-> ZeroStats,
     missing_pdf_count |-> 0, unmatched_count |-> 0, error_move_count |-> 0]

FiltraMdIdle == md = NotRunning

\* md_files = [f for f in os.listdir(cwd) if f.lower().endswith('.md')]
FiltraMdInit ==
    \E files \in SeqsUpTo(MdFiles, MaxMd) :
        md = [IdleFiltraMd EXCEPT !.md_files = files,
                                  !.md_moves = [k \in DOMAIN files |-> <<>>],
                                  !.pdf_moves = [k \in DOMAIN files |-> <<>>]]

\* one iteration of "for filename in md_files": the file cannot be read
FiltraMdReadError ==
    /\ md.i <= Len(md.md_files)
    /\ ~md.md_files[md.i].readable
    /\ md' = [md EXCEPT !.i = @ + 1, !.error_move_count = @ + 1]
    /\ UNCHANGED allButFiltraMd

\* one iteration: a pattern is found, the PDF (when in cwd) and the MD are moved
FiltraMdMatched ==
    /\ md.i <= Len(md.md_files)
    /\ md.md_files[md.i].readable
    /\ LET file == md.md_files[md.i]
           dest_folder == first_match(file.matches, 1)
       IN  /\ dest_folder # NoFolder
           /\ md' = [md EXCEPT
                        !.i = @ + 1,
                        !.pdf_moves[md.i] = IF file.has_pdf THEN Append(@, dest_folder) ELSE @,
                        !.moved_pdf_stats[dest_folder] = IF file.has_pdf THEN @ + 1 ELSE @,
                        !.missing_pdf_count = IF file.has_pdf THEN @ ELSE @ + 1,
                        !.md_moves[md.i] = Append(@, dest_folder),
                        !.moved_md_stats[dest_folder] = @ + 1]
    /\ UNCHANGED allButFiltraMd

\* one iteration: the for over mappings ends without break
FiltraMdUnmatched ==
    /\ md.i <= Len(md.md_files)
    /\ md.md_files[md.i].readable
    /\ first_match(md.md_files[md.i].matches, 1) = NoFolder
    /\ md' = [md EXCEPT !.i = @ + 1, !.unmatched_count = @ + 1]
    /\ UNCHANGED allButFiltraMd

(***************************************************************************)
(* AE_semantica_functions.detectar_similares_consecutivos_tfidf.  The      *)
(* texts are "x", "y" and NaN; cosine_similarity of the TF-IDF vectors of  *)
(* a text with itself is 1, and of "x" with "y" a value given with the     *)
(* input, the same in both orders (the product of the two normalised       *)
(* vectors).  Similarities are in hundredths.                              *)
(***************************************************************************)
Max(a, b) == IF a >= b THEN a ELSE b

NaN == "NaN"
TfidfTexts == {"x", "y", NaN}
Similarities == {0, 69, 70, 100}
Janelas == {1, 2}

TfidfRows == [ID_TERMO : Ids, JUSTIFICATIVA : TfidfTexts]

\* df = df[df["JUSTIFICATIVA"].notna()].reset_index(drop=True)
NotNa(row) == row.JUSTIFICATIVA # NaN
dropna(df) == SelectSeq(df, NotNa)

\* cosine_similarity(vetor_i, matriz_tfidf[j])[0][0]
cosine_similarity(a, b, sim_xy) == IF a = b THEN 100 ELSE sim_xy

\* only the rows after i are compared with i
window_low_forward(i, janela) == i

\* range(max(0, i - janela), min(len(df), i + janela + 1)), rows counted from 1
window_low(i, janela) == Max(1, i - janela)
window_high(i, janela, n) == Min(n, i + janela)

SimilarRow(df, i, j) ==
    [ID_BASE |-> df[i].ID_TERMO, JUSTIFICATIVA_BASE |-> df[i].JUSTIFICATIVA,
     ID_COMPARADA |-> df[j].ID_TERMO, JUSTIFICATIVA_COMPARADA |-> df[j].JUSTIFICATIVA]

\* for j in range(...): if i == j: continue; if sim >= limiar: similares.append(...)
RECURSIVE inner_loop(_, _, _, _, _)
inner_loop(df, i, j, janela, sim_xy) ==
    IF j > window_high(i, janela, Len(df)) THEN <<>>
    ELSE (IF i # j /\ cosine_similarity(df[i].JUSTIFICATIVA, df[j].JUSTIFICATIVA, sim_xy) >= limiar
          THEN <<SimilarRow(df, i, j)>> ELSE <<>>)
         \o inner_loop(df, i, j + 1, janela, sim_xy)

\* for i in range(len(df))
RECURSIVE outer_loop(_, _, _, _)
outer_loop(df, i, janela, sim_xy) ==
    IF i > Len(df) THEN <<>>
    ELSE inner_loop(df, i, window_low(i, janela), janela, sim_xy)
         \o outer_loop(df, i + 1, janela, sim_xy)

\* the list similares; pd.DataFrame([]) has no column, so set(df_similares["ID_BASE"])
\* raises KeyError when no pair was found
detectar_similares_consecutivos_tfidf(df, janela, sim_xy) ==
    LET similares == outer_loop(dropna(df), 1, janela, sim_xy)
    IN  [outcome |-> IF similares = <<>> THEN "KeyError" ELSE "returned",
         df_similares |-> similares]

IdleTfidf ==
    [pc |-> "idle", df |-> <<>>, janela |-> 1, sim_xy |-> 0, outcome |-> "none",
     df_similares |-> <<>>, filtro |-> NoFiltro]

TfidfIdle == ts = NotRunning

TfidfInit ==
    \E df \in SeqsUpTo(TfidfRows, MaxRows), janela \in Janelas, sim_xy \in Similarities :
        ts = [IdleTfidf EXCEPT !.pc = "detectar", !.df = df, !.janela = janela,
                               !.sim_xy = sim_xy]

\* df_similares, ... = detectar_similares_consecutivos_tfidf(df)
DetectarSimilares ==
    /\ ts.pc = "detectar"
    /\ LET r == detectar_similares_consecutivos_tfidf(ts.df, ts.janela, ts.sim_xy)
       IN  ts' = [ts EXCEPT !.pc = IF r.outcome = "returned" THEN "filtrar" ELSE "done",
                      !.outcome = r.outcome, !.df_similares = r.df_similares]
    /\ UNCHANGED allButTfidf

\* filtrar_por_similaridade(df, df_similares, colunas_salvar) on the table returned
FiltrarSimilares ==
    /\ ts.pc = "filtrar"
    /\ ts' = [ts EXCEPT !.pc = "done",
                 !.filtro = filtrar_por_similaridade(ts.df,
                                {ts.df_similares[k] : k \in DOMAIN ts.df_similares})]
    /\ UNCHANGED allButTfidf

(***************************************************************************)
(* Specifications.                                                         *)
(***************************************************************************)
InitClassify == ClsInit /\ StatsIdle /\ LlmIdle /\ BatchIdle /\ RestIdle /\ ValIdle /\ ParseIdle /\ DedupIdle /\ FallbackIdle /\ RetryIdle /\ FiltroIdle /\ ResumoIdle /\ FiltraMdIdle /\ TfidfIdle
NextClassify == ClassifyUtils \/ ClassifyProcessor \/ ClassifyApi
SpecClassify == InitClassify /\ [][NextClassify]_vars

InitStats == ClsIdle /\ StatsIdle /\ LlmIdle /\ BatchIdle /\ RestIdle /\ ValIdle /\ ParseIdle /\ DedupIdle /\ FallbackIdle /\ RetryIdle /\ FiltroIdle /\ ResumoIdle /\ FiltraMdIdle /\ TfidfIdle
NextStats ==
    \/ AnaliseSemanticaOk
    \/ AnaliseSemanticaError
    \/ ResetStatistics
    \/ GetStatistics
    \/ HealthCheck
SpecStats == InitStats /\ [][NextStats]_vars

InitLlm == ClsIdle /\ StatsIdle /\ LlmInit /\ BatchIdle /\ RestIdle /\ ValIdle /\ ParseIdle /\ DedupIdle /\ FallbackIdle /\ RetryIdle /\ FiltroIdle /\ ResumoIdle /\ FiltraMdIdle /\ TfidfIdle
NextLlm ==
    \/ Tick
    \/ EndCall
    \/ SC_StartCall
    \/ SC_TokenRequest
    \/ SC_ChatRequest
    \/ FP_StartCall
    \/ FP_TokenRequest
    \/ FP_ChatRequest
    \/ CN_StartCall
    \/ CN_LoopHead
    \/ CN_TokenRequest
    \/ CN_ChatRequest
SpecLlm == InitLlm /\ [][NextLlm]_vars

\* Every await of a call returns: the HTTP libraries answer or time out
\* (REQUEST_TIMEOUT), and a sleep ends.
CallStep ==
    \/ SC_TokenRequest \/ SC_ChatRequest
    \/ FP_TokenRequest \/ FP_ChatRequest
    \/ CN_LoopHead \/ CN_TokenRequest \/ CN_ChatRequest
SpecLlmFair == SpecLlm /\ WF_vars(CallStep)

InitBatch == ClsIdle /\ StatsIdle /\ LlmIdle /\ BatchIdle /\ RestIdle /\ ValIdle /\ ParseIdle /\ DedupIdle /\ FallbackIdle /\ RetryIdle /\ FiltroIdle /\ ResumoIdle /\ FiltraMdIdle /\ TfidfIdle
NextBatch ==
    \/ \E c \in Conns : handle_file_processing(c)
    \/ \E c \in Conns : HFP_Started(c)
    \/ \E c \in Conns : HFP_ItemDone(c)
    \/ \E c \in Conns : HFP_ProgressSent(c)
    \/ \E c \in Conns : HFP_SleepDone(c)
    \/ \E c \in Conns : HFP_Finally(c)
    \/ stop_file_processing
SpecBatch == InitBatch /\ [][NextBatch]_vars

InitRest == ClsIdle /\ StatsIdle /\ LlmIdle /\ BatchIdle /\ RestInit /\ ValIdle /\ ParseIdle /\ DedupIdle /\ FallbackIdle /\ RetryIdle /\ FiltroIdle /\ ResumoIdle /\ FiltraMdIdle /\ TfidfIdle
NextRest ==
    \/ analise_semantica_unica
    \/ analisar_llm_raised
    \/ analisar_llm_returned
SpecRest == InitRest /\ [][NextRest]_vars

InitValidation ==
    ClsIdle /\ StatsIdle /\ LlmIdle /\ BatchIdle /\ RestIdle /\ ValInit /\ ParseIdle /\ DedupIdle /\ FallbackIdle /\ RetryIdle /\ FiltroIdle /\ ResumoIdle /\ FiltraMdIdle /\ TfidfIdle
NextValidation ==
    \/ process_item
    \/ process_item_llm
    \/ process_file_ws_item
    \/ process_file_ws_llm
    \/ process_file_ws_next
SpecValidation == InitValidation /\ [][NextValidation]_vars

InitParse ==
    ClsIdle /\ StatsIdle /\ LlmIdle /\ BatchIdle /\ RestIdle /\ ValIdle /\ ParseInit /\ DedupIdle /\ FallbackIdle /\ RetryIdle /\ FiltroIdle /\ ResumoIdle /\ FiltraMdIdle /\ TfidfIdle
NextParse == ParseLineUtils \/ ParseLineProcessor
SpecParse == InitParse /\ [][NextParse]_vars

InitDedup ==
    ClsIdle /\ StatsIdle /\ LlmIdle /\ BatchIdle /\ RestIdle /\ ValIdle /\ ParseIdle /\ DedupInit /\ FallbackIdle /\ RetryIdle /\ FiltroIdle /\ ResumoIdle /\ FiltraMdIdle /\ TfidfIdle
NextDedup == mapear_por_hash \/ mover_arquivos \/ mover_arquivos_fim
SpecDedup == InitDedup /\ [][NextDedup]_vars

InitFallback ==
    ClsIdle /\ StatsIdle /\ LlmIdle /\ BatchIdle /\ RestIdle /\ ValIdle /\ ParseIdle /\ DedupIdle /\ FallbackInit /\ RetryIdle /\ FiltroIdle /\ ResumoIdle /\ FiltraMdIdle /\ TfidfIdle
NextFallback ==
    FallbackSerproClient \/ FallbackFileProcessor \/ FallbackConnector \/ FallbackTeste
SpecFallback == InitFallback /\ [][NextFallback]_vars

InitRetry ==
    ClsIdle /\ StatsIdle /\ LlmIdle /\ BatchIdle /\ RestIdle /\ ValIdle /\ ParseIdle /\ DedupIdle /\ FallbackIdle /\ RetryInit /\ FiltroIdle /\ ResumoIdle /\ FiltraMdIdle /\ TfidfIdle
NextRetry == CalculateRetryDelay
SpecRetry == InitRetry /\ [][NextRetry]_vars

InitFiltro ==
    ClsIdle /\ StatsIdle /\ LlmIdle /\ BatchIdle /\ RestIdle /\ ValIdle /\ ParseIdle /\ DedupIdle /\ FallbackIdle /\ RetryIdle /\ FiltroInit /\ ResumoIdle /\ FiltraMdIdle /\ TfidfIdle
NextFiltro == FiltrarPorSimilaridade
SpecFiltro == InitFiltro /\ [][NextFiltro]_vars

InitResumo ==
    ClsIdle /\ StatsIdle /\ LlmIdle /\ BatchIdle /\ RestIdle /\ ValIdle /\ ParseIdle /\ DedupIdle /\ FallbackIdle /\ RetryIdle /\ FiltroIdle /\ ResumoInit /\ FiltraMdIdle /\ TfidfIdle
NextResumo == MainRuido \/ MainRegex \/ MainRepeticao \/ MainResumoFinal
SpecResumo == InitResumo /\ [][NextResumo]_vars

InitFiltraMd ==
    ClsIdle /\ StatsIdle /\ LlmIdle /\ BatchIdle /\ RestIdle /\ ValIdle /\ ParseIdle /\ DedupIdle /\ FallbackIdle /\ RetryIdle /\ FiltroIdle /\ ResumoIdle /\ FiltraMdInit /\ TfidfIdle
NextFiltraMd == FiltraMdReadError \/ FiltraMdMatched \/ FiltraMdUnmatched
SpecFiltraMd == InitFiltraMd /\ [][NextFiltraMd]_vars

InitTfidf ==
    ClsIdle /\ StatsIdle /\ LlmIdle /\ BatchIdle /\ RestIdle /\ ValIdle /\ ParseIdle /\ DedupIdle /\ FallbackIdle /\ RetryIdle /\ FiltroIdle /\ ResumoIdle /\ FiltraMdIdle /\ TfidfInit
NextTfidf == DetectarSimilares \/ FiltrarSimilares
SpecTfidf == InitTfidf /\ [][NextTfidf]_vars

Init == InitClassify
Next == NextClassify
Spec == SpecClassify

(***************************************************************************)
(* C1: for every diagnosis d and confidence c the status is APPROVED iff   *)
(* d = "SIM" and c >= 0.7, REVIEW_REQUIRED iff d = "SIM" and               *)
(* 0.5 <= c < 0.7, REJECTED in every other case; classify_result,          *)
(* process_item and analisar_semantica_consignacao give the same status.   *)
(***************************************************************************)
StatusAsClaimed(status, d, c) ==
    /\ status \in {"APPROVED", "REVIEW_REQUIRED", "REJECTED"}
    /\ (status = "APPROVED") <=> (d = "SIM" /\ c >= 70)
    /\ (status = "REVIEW_REQUIRED") <=> (d = "SIM" /\ c >= 50 /\ c < 70)
    /\ (status = "REJECTED") <=> (d # "SIM" \/ c < 50)

C1_Classification ==
    LET d == GetDiagnostico(cls.llm_result)
        c == GetConfidence(cls.llm_result)
    IN  /\ cls.utils # None => StatusAsClaimed(cls.utils, d, c)
        /\ cls.processor # None => StatusAsClaimed(cls.processor, d, c)
        /\ cls.api # None => StatusAsClaimed(cls.api, d, c)
        /\ (cls.utils # None /\ cls.processor # None) => cls.utils = cls.processor
        /\ (cls.utils # None /\ cls.api # None) => cls.utils = cls.api

C1_Witness ==
    /\ cls.llm_result.diagnosticoLLM = "SIM"
    /\ cls.llm_result.has_confidence
    /\ cls.llm_result.confidence = 70
    /\ cls.utils = "APPROVED"
    /\ cls.processor = "APPROVED"
    /\ cls.api = "APPROVED"

(***************************************************************************)
(* C8: after POST /stats/reset has answered, the next GET /stats or        *)
(* GET /health with no analysis in between reports total_requests = 0 and  *)
(* total_errors = 0.                                                       *)
(***************************************************************************)
C8_ResetZeroes ==
    (st.reply.endpoint # None /\ st.reply.after_reset) =>
        (st.reply.stats.total_requests = 0 /\ st.reply.stats.total_errors = 0)

(***************************************************************************)
(* C2: in FileProcessor.call_serpro_llm and SerproClient.call_llm, after   *)
(* an attempt answered 401 the token is renewed and the next attempt of    *)
(* the same call carries the renewed token in its Authorization header,    *)
(* never the token that was just rejected.                                 *)
(***************************************************************************)
RenewedAfter401 ==
    obs.after401 =>
        /\ obs.renewed_at_send
        /\ obs.hdr_sent # obs.hdr_before
        /\ obs.sent_latest

C2_RenewedTokenAfter401 ==
    client \in {"FileProcessor", "SerproClient"} => RenewedAfter401

\* the same statement for each of the two classes, and for the third one
C2_FileProcessorOnly == client = "FileProcessor" => RenewedAfter401
C2_SerproClientOnly == client = "SerproClient" => RenewedAfter401
C2_ConnectorOnly == client = "SerproLLMConnector" => RenewedAfter401

(***************************************************************************)
(* C3: when the token endpoint answers 401 or 403, get_access_token        *)
(* (FileProcessor and SerproLLMConnector) fails with an exception after    *)
(* that single request, without sleeping and without another token         *)
(* request.                                                                *)
(***************************************************************************)
AuthErrorNotRetried ==
    obs.tok_auth => (obs.tok_state = "raised" /\ ~obs.tok_after_auth)

C3_AuthErrorNotRetried ==
    client \in {"FileProcessor", "SerproLLMConnector"} => AuthErrorNotRetried

C3_FileProcessorOnly == client = "FileProcessor" => AuthErrorNotRetried
C3_ConnectorOnly == client = "SerproLLMConnector" => AuthErrorNotRetried

(***************************************************************************)
(* C4: every LLM call sends at most max_retries chat-completion requests   *)
(* and always terminates: it returns the parsed result of the first 200    *)
(* answer or raises after its last failed attempt; it never returns        *)
(* without a result and never sends a request after the attempt limit.     *)
(***************************************************************************)
AttemptLimit == IF client = "SerproClient" THEN MAX_RETRIES ELSE max_retries

C4_Safe ==
    /\ obs.chat_sent <= AttemptLimit
    /\ call.pc = "done" => obs.outcome \in {"returned", "raised"}
    /\ call.pc # "done" => obs.outcome = "none"
    /\ obs.outcome = "returned" =>
          /\ obs.last = Http(200)
          /\ \E body \in Bodies : obs.result = parse_response(client, body)
    /\ obs.outcome = "raised" => (obs.last # Http(200) /\ obs.result = NoResult)
    /\ obs.last = Http(200) => (call.pc = "done" /\ obs.outcome = "returned")

C9_TokenCache ==
    /\ token_expires_at # 0 =>
          token_expires_at =
              obs.rcv_time + (IF obs.rcv_expires.has THEN obs.rcv_expires.v ELSE 3600) - 300
    /\ obs.start_valid => ~obs.tok_before_chat
    /\ (obs.chat_sent >= 1 /\ ~obs.start_valid) => obs.tok_before_chat
    /\ (obs.chat_sent = 1 /\ ~obs.start_valid) =>
          (obs.renewed_at_send /\ obs.sent_latest)
    /\ (obs.chat_sent = 1 /\ obs.start_valid) =>
          (~obs.renewed_at_send /\ obs.hdr_sent # 0)

C9_Witness ==
    /\ call.n = 2
    /\ now > StartTime
    /\ obs.start_valid
    /\ obs.chat_sent = 1
    /\ ~obs.tok_before_chat

C9_WitnessExpired ==
    /\ call.n = 2
    /\ access_token # 0
    /\ ~obs.start_valid
    /\ obs.chat_sent = 1
    /\ obs.tok_before_chat

(***************************************************************************)
(* C5: in 1_api_main_v2 at most one file-processing batch runs at any      *)
(* time, under every interleaving of process_file requests and             *)
(* /stop-file-processing calls.                                            *)
(***************************************************************************)
RunningBatches == {c \in Conns : conn[c].pc # "idle"}

C5_AtMostOneBatch == Cardinality(RunningBatches) <= 1

(***************************************************************************)
(* C6: once /stop-file-processing has answered "File processing stopped",  *)
(* the batch that was running starts no further item, whatever requests    *)
(* arrive afterwards (a new process_file included).                        *)
(***************************************************************************)
C6_NoItemAfterStop == \A c \in Conns : ~conn[c].item_after_stop

(***************************************************************************)
(* C7: POST /analise-semantica of 1_api_main_v2 accepts a free-text        *)
(* justification: for any non-empty input with fewer than four             *)
(* '#'-separated fields the text is analysed by the LLM and the answer     *)
(* has status APPROVED, REVIEW_REQUIRED or REJECTED, not ERROR (an ERROR   *)
(* is admitted here only when the LLM call itself failed).                 *)
(***************************************************************************)
FreeText(s) == strip(s) # <<>> /\ Len(split(strip(s))) < 4

C7_FreeTextAnalysed ==
    (rest.pc = "done" /\ FreeText(rest.input)) =>
        /\ rest.llm_called
        /\ rest.llm_failed \/ rest.status \in {"APPROVED", "REVIEW_REQUIRED", "REJECTED"}

\* the same statement for the full lines, which the endpoint does analyse
C7_FullLineAnalysed ==
    (rest.pc = "done" /\ strip(rest.input) # <<>> /\ ~FreeText(rest.input)) =>
        /\ rest.llm_called
        /\ rest.llm_failed \/ rest.status \in {"APPROVED", "REVIEW_REQUIRED", "REJECTED"}

(***************************************************************************)
(* C10: validation happens before any LLM request.  A line whose           *)
(* justificativa has fewer than 10 characters (or, for SemanticaInput,     *)
(* whose CPF does not hold exactly 11 digits or whose id_termo is blank)   *)
(* causes no chat-completion request; FileProcessor.process_item returns   *)
(* status ERROR with error_type VALIDATION_ERROR for it; main.py's file    *)
(* processing counts it as one error and still processes the next line.    *)
(***************************************************************************)
Fields(line) == split(line)
HasFields(line) == Len(Fields(line)) >= 4
JustificativaOf(line) == join(SubSeq(Fields(line), 4, Len(Fields(line))))
NumDigits(v) == Cardinality({k \in 1 .. Len(v) : v[k] \in Digits})
Blank(v) == \A k \in 1 .. Len(v) : v[k] = " "

ShortJustificativa(line) == HasFields(line) /\ Len(JustificativaOf(line)) < 10

RejectedBySemanticaInput(line) ==
    /\ HasFields(line)
    /\ \/ Len(JustificativaOf(line)) < 10
       \/ NumDigits(Fields(line)[2]) # 11
       \/ Blank(Fields(line)[1])

RECURSIVE ErrorsOf(_)
ErrorsOf(results) ==
    IF results = <<>> THEN 0 ELSE Head(results).errors + ErrorsOf(Tail(results))

C10_ValidationBeforeLlm ==
    /\ \A j \in 1 .. Len(val.results) :
          /\ (val.who = "FileProcessor" /\ ShortJustificativa(val.lines[j])) =>
                /\ val.results[j].chat = 0
                /\ val.results[j].status = "ERROR"
                /\ val.results[j].error_type = "VALIDATION_ERROR"
          /\ (val.who = "main" /\ RejectedBySemanticaInput(val.lines[j])) =>
                /\ val.results[j].chat = 0
                /\ val.results[j].errors = 1
    \* no LLM call is under way for such a line
    /\ (val.who = "FileProcessor" /\ val.pc = "llm") =>
          ~ShortJustificativa(val.lines[val.i])
    /\ (val.who = "main" /\ val.pc = "llm") =>
          ~RejectedBySemanticaInput(val.lines[val.i])
    \* the errors counted are those of the lines, and the file is read to its end
    /\ val.who = "main" =>
          /\ val.errors = ErrorsOf(val.results)
          /\ val.pc = "completed" => Len(val.results) = Len(val.lines)
          /\ val.pc = "item" => Len(val.results) = val.i - 1

C10_Witness ==
    /\ val.who = "main"
    /\ val.pc = "completed"
    /\ ShortJustificativa(val.lines[1])
    /\ val.results[1].chat = 0
    /\ val.errors = 1
    /\ val.results[2].status = "APPROVED"
    /\ val.results[2].chat >= 1

C10_WitnessProcessor ==
    /\ val.who = "FileProcessor"
    /\ val.pc = "done"
    /\ Len(JustificativaOf(val.lines[1])) = 9
    /\ val.results[1].error_type = "VALIDATION_ERROR"

(***************************************************************************)
(* C11: parse_line raises ValueError for every line with fewer than four   *)
(* '#'-separated fields; for every other line id_termo, cpf and            *)
(* pratica_vedada are the first three fields and justificativa is the      *)
(* whole rest of the line after the third '#', its own '#' kept, so that   *)
(* id_termo # cpf # pratica_vedada # justificativa is the input line.      *)
(***************************************************************************)
HashAt(line) == {k \in 1 .. Len(line) : line[k] = "#"}

\* the position of the n-th '#' of a line
NthHash(line, n) ==
    CHOOSE k \in HashAt(line) : Cardinality({j \in HashAt(line) : j <= k}) = n

ParsedAsClaimed(r, line) ==
    IF Cardinality(HashAt(line)) < 3
    THEN r.error
    ELSE LET h1 == NthHash(line, 1)
             h2 == NthHash(line, 2)
             h3 == NthHash(line, 3)
         IN  /\ ~r.error
             /\ r.data.id_termo = SubSeq(line, 1, h1 - 1)
             /\ r.data.cpf = SubSeq(line, h1 + 1, h2 - 1)
             /\ r.data.pratica_vedada = SubSeq(line, h2 + 1, h3 - 1)
             /\ r.data.justificativa = SubSeq(line, h3 + 1, Len(line))
             /\ to_internal_format(r.data) = line

C11_ParseLine ==
    /\ pl.utils.called => ParsedAsClaimed(pl.utils, pl.line)
    /\ pl.processor.called => ParsedAsClaimed(pl.processor, pl.line)

C11_Witness ==
    /\ pl.utils.called
    /\ pl.processor.called
    /\ Cardinality(HashAt(pl.line)) = 4
    /\ pl.processor.data.justificativa = <<"a", "#", "a">>

(***************************************************************************)
(* C12: after mapear_por_hash and mover_arquivos, of every group of        *)
(* scanned files with the same SHA-256 exactly one, the first in sorted    *)
(* path order, is in UNIQUE and the others are in REPETITION; the moves to *)
(* UNIQUE are as many as the distinct hashes, the moves to UNIQUE and      *)
(* REPETITION together as many as the files scanned, and no file already   *)
(* in a destination folder is overwritten.                                 *)
(***************************************************************************)
GroupOf(h) == {f.path : f \in {g \in dd.raiz0 : g.hash = h}}
FirstOf(paths) ==
    CHOOSE p \in paths : \A q \in paths \ {p} : TupleLess(PathParts(p), PathParts(q))
MovedTo(folder) == {f.from : f \in {g \in folder : g.from # NoPath}}

C12_UniqueAndRepetition ==
    dd.pc = "done" =>
        /\ \A h \in {f.hash : f \in dd.raiz0} :
              /\ MovedTo(dd.UNIQUE) \cap GroupOf(h) = {FirstOf(GroupOf(h))}
              /\ MovedTo(dd.REPETITION) \cap GroupOf(h) = GroupOf(h) \ {FirstOf(GroupOf(h))}
        /\ \A f \in dd.UNIQUE \cup dd.REPETITION :
              f.from # NoPath => \E g \in dd.raiz0 : g.path = f.from /\ g.hash = f.hash
        /\ dd.cont_unicos = Cardinality({f.hash : f \in dd.raiz0})
        /\ dd.cont_unicos = Cardinality(MovedTo(dd.UNIQUE))
        /\ dd.cont_repetidos = Cardinality(MovedTo(dd.REPETITION))
        /\ dd.cont_unicos + dd.cont_repetidos = Cardinality(dd.raiz0)
        /\ dd.arquivos_encontrados = Cardinality(dd.raiz0)
        /\ dd.raiz = {}
        /\ dd.unique0 \subseteq dd.UNIQUE
        /\ dd.repetition0 \subseteq dd.REPETITION
        /\ Cardinality(dd.UNIQUE) = Cardinality(dd.unique0) + dd.cont_unicos
        /\ Cardinality(dd.REPETITION) = Cardinality(dd.repetition0) + dd.cont_repetidos

C12_Witness ==
    /\ dd.pc = "done"
    /\ dd.cont_unicos = 2
    /\ dd.cont_repetidos = 2
    /\ OldFile(<<1>>) \in dd.UNIQUE
    /\ OldFile(<<1, 1>>) \in dd.UNIQUE
    /\ \E f \in dd.UNIQUE : f.name = <<1, 2>>
    /\ \E f \in dd.REPETITION : f.name = <<1, 1>> /\ f.from # NoPath

(***************************************************************************)
(* C13: on a text the keyword fallback answers SIM iff more approval       *)
(* keywords than rejection keywords are found, NÃO otherwise (a tie too);  *)
(* its confidence is min(cap, 0.5 + 0.1 x the winning count), cap 0.9 (0.8 *)
(* in SerproClient), between 0.5 and the cap, and a fallback SIM is never  *)
(* classified REJECTED.  On a content that is not a text                   *)
(* SerproClient.create_fallback answers NÃO with confidence 0.1 and the    *)
(* other three raise.                                                      *)
(***************************************************************************)
ApproveWordsOf(class) ==
    IF class = "SerproClient" THEN {"sim", "aprovado", "valido", "autorizacao"}
    ELSE {"sim", "aprovado", "valido", "procedente", "autorizacao", "liquidado", "credito"}

RejectWordsOf(class) ==
    IF class = "SerproClient" THEN {"nao", "rejeitado", "invalido", "boleto"}
    ELSE {"nao", "rejeitado", "invalido", "taxa", "boleto", "renegociar"}

CapOf(class) == IF class = "SerproClient" THEN 80 ELSE 90

\* the keywords of a list that occur in the text, by the words that carry them
Carried(keyword) ==
    CASE keyword = "sim" -> {"sim", "SIM", "assim"}
      [] keyword = "valido" -> {"valido", "invalido"}
      [] OTHER -> {keyword}

Occurring(keywords) == {k \in keywords : Carried(k) \cap fb.content.words # {}}

FallbackOnTextAsClaimed ==
    LET a == Cardinality(Occurring(ApproveWordsOf(fb.class)))
        r == Cardinality(Occurring(RejectWordsOf(fb.class)))
        cap == CapOf(fb.class)
    IN  /\ fb.result.outcome = "returned"
        /\ fb.result.diagnosticoLLM = (IF a > r THEN "SIM" ELSE "NAO")
        /\ fb.result.confidence = (IF a > r THEN Min(cap, 50 + 10 * a) ELSE Min(cap, 50 + 10 * r))
        /\ fb.result.confidence >= 50
        /\ fb.result.confidence <= cap
        /\ fb.result.diagnosticoLLM = "SIM" => fb.status # "REJECTED"

C13_KeywordFallback ==
    fb.class # None =>
        IF fb.content.is_str THEN FallbackOnTextAsClaimed
        ELSE IF fb.class = "SerproClient"
             THEN /\ fb.result.outcome = "returned"
                  /\ fb.result.diagnosticoLLM = "NAO"
                  /\ fb.result.confidence = 10
             ELSE fb.result.outcome = "raised"

\* as stated: every answer of the fallback has its confidence in [0.5, cap]
C13_AsStated ==
    (fb.class # None /\ fb.result.outcome = "returned") => FallbackOnTextAsClaimed

\* SerproClient on four approval keywords against one: SIM at the cap 0.8
C13_Witness ==
    /\ fb.class = "SerproClient"
    /\ fb.content.is_str
    /\ fb.content.words = {"SIM", "aprovado", "invalido", "autorizacao"}
    /\ fb.result.diagnosticoLLM = "SIM"
    /\ fb.result.confidence = 80
    /\ fb.status = "APPROVED"

C13_WitnessTie ==
    /\ fb.class = "FileProcessor"
    /\ fb.content.words = {"invalido"}
    /\ fb.result.diagnosticoLLM = "NAO"
    /\ fb.result.confidence = 60

C13_WitnessNotText ==
    /\ fb.class = "SerproClient"
    /\ ~fb.content.is_str
    /\ fb.result.outcome = "returned"
    /\ fb.result.confidence = 10

(***************************************************************************)
(* C14: the wait of _calculate_retry_delay never exceeds max_delay; with a *)
(* Retry-After value n it is min(n, max_delay) and the backoff is not      *)
(* used; otherwise it is retry_delay x backoff_multiplier^(attempt-1),     *)
(* changed by a jitter of at most 5 percent, then capped at max_delay.     *)
(***************************************************************************)
\* 3^(attempt-1) / 2^(attempt-1) seconds, in RetryUnit-ths
ExpectedBackoff == (RetryUnit * Pow(3, rd.attempt - 1)) \div Pow(2, rd.attempt - 1)

WaitWithinMaxDelay == rd.delay <= rd.max_delay * RetryUnit

WaitIsRetryAfter ==
    /\ rd.delay = Min(rd.header.value, rd.max_delay) * RetryUnit
    /\ ~rd.backoff

WaitIsBackoff ==
    /\ rd.backoff
    /\ \E j \in -(ExpectedBackoff \div 20) .. (ExpectedBackoff \div 20) :
          rd.delay = Min(ExpectedBackoff + j, rd.max_delay * RetryUnit)

C14_NeverExceedsMaxDelay == rd.called => WaitWithinMaxDelay

\* the claim with the Retry-After branch read for every n but 0
C14_ExceptRetryAfterZero ==
    rd.called =>
        /\ WaitWithinMaxDelay
        /\ (rd.header.present /\ rd.header.value # 0) => WaitIsRetryAfter
        /\ (~rd.header.present \/ rd.header.value = 0) => WaitIsBackoff

\* Retry-After: 0 on the first attempt answered by a wait of the backoff
C14_RetryAfterZeroBacksOff ==
    /\ rd.called
    /\ rd.header = [present |-> TRUE, value |-> 0]
    /\ rd.attempt = 1
    /\ rd.backoff
    /\ rd.delay > 0

\* a backoff beyond MAX_DELAY = 2 capped, and a Retry-After of 60 capped at 30
C14_WitnessCapped ==
    /\ rd.called
    /\ rd.max_delay = 2
    /\ rd.attempt = 3
    /\ ~rd.header.present
    /\ rd.delay = 2 * RetryUnit

(***************************************************************************)
(* C15: filtrar_por_similaridade splits the rows of df in two: df_duplicados*)
(* holds exactly the rows whose ID TERMO occurs as ID_COMPARADA and never  *)
(* as ID_BASE in df_similares, df_filtrado every other row; every ID_BASE  *)
(* stays in df_filtrado, and the assertion of the function never fails.    *)
(***************************************************************************)
IsBase(id) == \E r \in fs.df_similares : r.ID_BASE = id
IsComparada(id) == \E r \in fs.df_similares : r.ID_COMPARADA = id

IndexesOf(df) == {df[i].index : i \in DOMAIN df}

RowsOf(df) == {df[i] : i \in DOMAIN df}

C15_Partition ==
    fs.result.outcome # "none" =>
        /\ fs.result.outcome = "returned"
        /\ RowsOf(fs.result.df_duplicados) =
              {row \in RowsOf(fs.df) : IsComparada(row.ID_TERMO) /\ ~IsBase(row.ID_TERMO)}
        /\ RowsOf(fs.result.df_filtrado) =
              {row \in RowsOf(fs.df) : ~(IsComparada(row.ID_TERMO) /\ ~IsBase(row.ID_TERMO))}
        /\ IndexesOf(fs.result.df_duplicados) \cap IndexesOf(fs.result.df_filtrado) = {}
        /\ Len(fs.result.df_duplicados) + Len(fs.result.df_filtrado) = Len(fs.df)
        /\ \A row \in RowsOf(fs.df) : IsBase(row.ID_TERMO) => row \in RowsOf(fs.result.df_filtrado)

\* ID 1 is base of 2 and compared with 3, ID 3 is a base: only the row of ID 2 is removed
C15_Witness ==
    /\ fs.result.outcome = "returned"
    /\ fs.df = DataFrame(<<1, 2, 3>>)
    /\ fs.df_similares = {[ID_BASE |-> 1, ID_COMPARADA |-> 2],
                          [ID_BASE |-> 3, ID_COMPARADA |-> 1]}
    /\ fs.result.df_duplicados = <<[index |-> 2, ID_TERMO |-> 2]>>
    /\ Len(fs.result.df_filtrado) = 2

(***************************************************************************)
(* C16: after exibir_resumo_final the rejected file and the approved file  *)
(* hold disjoint sets of ID TERMO, each ID at most once per file, every    *)
(* ID TERMO of df_original is in exactly one of the two files, and the     *)
(* printed total of approved (total_original - total_reprovados) equals    *)
(* the number of rows written to the approved file.                        *)
(***************************************************************************)
Reprovados == rs.files["1_filtrados_consignacao.csv"].rows
Aprovados == rs.files["2_consignacao_aprovado.csv"].rows

OncePerFile(df) == \A i, j \in DOMAIN df : df[i].ID_TERMO = df[j].ID_TERMO => i = j

FilesSplitTheIds ==
    /\ IdSet(Reprovados) \cap IdSet(Aprovados) = {}
    /\ OncePerFile(Reprovados)
    /\ OncePerFile(Aprovados)
    /\ \A id \in IdSet(rs.df_inicial) : id \in IdSet(Reprovados) \cup IdSet(Aprovados)

PrintedTotalIsRowsWritten == rs.printed.total_aprovados = Len(Aprovados)

C16_ResumoFinal ==
    rs.outcome = "returned" => (FilesSplitTheIds /\ PrintedTotalIsRowsWritten)

\* the two files split the IDs whatever the input
C16_FilesSplitTheIds == rs.outcome = "returned" => FilesSplitTheIds

\* the printed total is the number of rows when no ID TERMO repeats in df_original
\* and the pairs file names only IDs of df_original
C16_TotalWhenIdsUnique ==
    (/\ rs.outcome = "returned"
     /\ OncePerFile(rs.df_inicial)
     /\ rs.files["filtro_tfidf_pares_redundantes.csv"].exists => {1, 2} \subseteq IdSet(rs.df_inicial))
        => PrintedTotalIsRowsWritten

\* no pairs file, ID 3 on two rows: 4 rows, 3 IDs rejected, printed 1, written 0
C16_RepeatedIdMiscounted ==
    /\ rs.outcome = "returned"
    /\ ~rs.files["filtro_tfidf_pares_redundantes.csv"].exists
    /\ Len(rs.df_inicial) = 4
    /\ Cardinality(IdSet(rs.df_inicial)) = 3
    /\ rs.printed.total_aprovados = 1
    /\ Len(Aprovados) = 0

(***************************************************************************)
(* C17: every .md file that was read goes to the folder of the first       *)
(* pattern of mappings, in list order, that matches its content, and its   *)
(* .pdf (when it exists) to the same folder; a file that matches no        *)
(* pattern stays in place and is counted as unmatched; no file is moved    *)
(* to more than one folder.                                                *)
(***************************************************************************)
Processed == 1 .. (md.i - 1)

MatchingIndexes(k) ==
    {m \in DOMAIN mappings : mappings[m].pattern \in md.md_files[k].matches}

FolderOfFirstPattern(k) ==
    mappings[CHOOSE m \in MatchingIndexes(k) : \A n \in MatchingIndexes(k) : m <= n].dest_folder

UnmatchedFiles == {k \in Processed : md.md_files[k].readable /\ MatchingIndexes(k) = {}}

Compared == SelectSeq(ts.df, LAMBDA row : row.JUSTIFICATIVA # "NaN")

SimilarityOf(i, j) ==
    IF Compared[i].JUSTIFICATIVA = Compared[j].JUSTIFICATIVA THEN 100 ELSE ts.sim_xy

Qualifying ==
    {p \in (DOMAIN Compared) \X (DOMAIN Compared) :
        /\ p[1] # p[2]
        /\ p[1] - p[2] <= ts.janela
        /\ p[2] - p[1] <= ts.janela
        /\ SimilarityOf(p[1], p[2]) >= 70}

RowOfPair(p) ==
    [ID_BASE |-> Compared[p[1]].ID_TERMO, JUSTIFICATIVA_BASE |-> Compared[p[1]].JUSTIFICATIVA,
     ID_COMPARADA |-> Compared[p[2]].ID_TERMO,
     JUSTIFICATIVA_COMPARADA |-> Compared[p[2]].JUSTIFICATIVA]

Swapped(r) ==
    [ID_BASE |-> r.ID_COMPARADA, JUSTIFICATIVA_BASE |-> r.JUSTIFICATIVA_COMPARADA,
     ID_COMPARADA |-> r.ID_BASE, JUSTIFICATIVA_COMPARADA |-> r.JUSTIFICATIVA_BASE]

Recorded == {ts.df_similares[k] : k \in DOMAIN ts.df_similares}

C18_SymmetricTable ==
    /\ ts.outcome # "none" =>
          /\ Len(ts.df_similares) = Cardinality(Qualifying)
          /\ Recorded = {RowOfPair(p) : p \in Qualifying}
          /\ \A r \in Recorded : Swapped(r) \in Recorded
          /\ {r.ID_BASE : r \in Recorded} = {r.ID_COMPARADA : r \in Recorded}
    /\ ts.filtro.outcome # "none" =>
          /\ ts.filtro.outcome = "returned"
          /\ ts.filtro.df_filtrado = ts.df
          /\ ts.filtro.df_duplicados = <<>>

\* three rows, janela 1, "x" and "y" similar at the threshold: rows 1-2 and 2-3 are
\* paired both ways, rows 1 and 3 are not, and the filter keeps the three rows
C18_Witness ==
    /\ ts.pc = "done"
    /\ ts.janela = 1
    /\ ts.sim_xy = 70
    /\ ts.df = << [ID_TERMO |-> 1, JUSTIFICATIVA |-> "x"],
                  [ID_TERMO |-> 2, JUSTIFICATIVA |-> "y"],
                  [ID_TERMO |-> 3, JUSTIFICATIVA |-> "x"] >>
    /\ Len(ts.df_similares) = 4
    /\ ts.filtro.outcome = "returned"
    /\ Len(ts.filtro.df_filtrado) = 3

=============================================================================
